---- MODULE Spec2Model ----
(***************************************************************************)
(* Model of the enrichment-and-merge pipeline of licitacoes_pdf.py:        *)
(* normalisation and local scoring of PNCP notices, the keyword filter and *)
(* the "at least one prosseguir" backstop of main, document discovery and  *)
(* field extraction, and the reconciliation of the optional AI feed.       *)
(*                                                                         *)
(* Text is a sequence of characters; a character is a one-letter string,   *)
(* an accented letter is the letter followed by its mark ("a~", "I'").     *)
(* Python's None is NoneStr for an Optional[str] and NoneNum for an        *)
(* Optional number.  Money is counted in centavos.                         *)
(***************************************************************************)
EXTENDS Integers, Sequences, FiniteSets, TLC

VARIABLES
    pc,          \* where main is
    args,        \* the command line: filters, ConvertAPI token, AI switch
    filtros,     \* main's filtros
    arr,         \* the raw records fetch_pncp returned
    resultados,  \* main's resultados
    ai_payload,  \* main's ai_payload, the input of call_openai_summary
    idx,         \* the notice the enrichment loop is at (from 1)
    page_html,   \* the loop's page_html
    cand,        \* what find_pdf_links proposed: [edital, anexo]
    edital_url,  \* the loop's edital_url
    anexo_url,   \* the loop's anexo_url
    verified,    \* the URLs ensure_pdf_url returned in this pass of the loop
    extracted,   \* the loop's extracted, what the documents of this pass gave
    ai,          \* main's ai_block
    featured,    \* what match_ai_featured returned in build_html
    call,        \* the argument of a function applied on its own
    ret          \* what that function returned; for the start of main, what
                 \* the listing request answered

vars == <<pc, args, filtros, arr, resultados, ai_payload, idx, page_html, cand, edital_url,
          anexo_url, verified, extracted, ai, featured, call, ret>>

-----------------------------------------------------------------------------
(* Bounds of the model *)

MaxArr == 2
MaxItens == 2
MaxKeys == 2
MaxCents == 120
MaxEditalLines == 2
MaxAnexoLines == 1
MaxAnchors == 3

-----------------------------------------------------------------------------
(* None, truthiness *)

NoneStr == <<"<None>">>
NoneNum == -1

Truthy(s) == s # NoneStr /\ s # <<>>
OrEmpty(s) == IF Truthy(s) THEN s ELSE <<>>
NumTruthy(n) == n # NoneNum /\ n # 0
OrZero(n) == IF NumTruthy(n) THEN n ELSE 0

-----------------------------------------------------------------------------
(* Characters: str.lower, str.upper and the NFD fold of nlower *)

LowerAlpha == <<"a","b","c","d","e","f","g","h","i","j","k","l","m",
                "n","o","p","q","r","s","t","u","v","w","x","y","z">>
UpperAlpha == <<"A","B","C","D","E","F","G","H","I","J","K","L","M",
                "N","O","P","Q","R","S","T","U","V","W","X","Y","Z">>
LowerAccent == <<"a'","a~","c,","e^","i'">>
UpperAccent == <<"A'","A~","C,","E^","I'">>
AccentBase  == <<"a","a","c","e","i">>

Range(s) == {s[i] : i \in 1..Len(s)}
Pos(s, c) == CHOOSE i \in 1..Len(s) : s[i] = c

LowerLetters == LowerAlpha \o LowerAccent
UpperLetters == UpperAlpha \o UpperAccent

\* the tables of str.lower, str.upper and of the NFD fold
LowerMap == [c \in Range(UpperLetters) |-> LowerLetters[Pos(UpperLetters, c)]]
UpperMap == [c \in Range(LowerLetters) |-> UpperLetters[Pos(LowerLetters, c)]]
BaseMap ==
    [c \in Range(LowerAccent) \cup Range(UpperAccent) |->
        IF c \in Range(LowerAccent) THEN AccentBase[Pos(LowerAccent, c)]
        ELSE UpperAlpha[Pos(LowerAlpha, AccentBase[Pos(UpperAccent, c)])]]

LowerChar(c) == IF c \in DOMAIN LowerMap THEN LowerMap[c] ELSE c
UpperChar(c) == IF c \in DOMAIN UpperMap THEN UpperMap[c] ELSE c

\* unicodedata.normalize("NFD") then dropping the combining marks (category Mn)
StripMark(c) == IF c \in DOMAIN BaseMap THEN BaseMap[c] ELSE c

lower(s) == [i \in 1..Len(s) |-> LowerChar(s[i])]
upper(s) == [i \in 1..Len(s) |-> UpperChar(s[i])]

nlower(s) ==
    IF s = NoneStr THEN <<>>
    ELSE [i \in 1..Len(s) |-> LowerChar(StripMark(s[i]))]

\* Python's `sub in s` / s.find(sub) >= 0
Contains(s, sub) ==
    \E k \in 0..(Len(s) - Len(sub)) : SubSeq(s, k + 1, k + Len(sub)) = sub

StartsWith(s, pre) == Len(pre) <= Len(s) /\ SubSeq(s, 1, Len(pre)) = pre
EndsWith(s, suf) ==
    Len(suf) <= Len(s) /\ SubSeq(s, Len(s) - Len(suf) + 1, Len(s)) = suf

-----------------------------------------------------------------------------
(* Scorer / classifier *)

MotivoAbsent == "<absent>"
MotivoBahia == "Excluido: orgao/UF Bahia"

\* an unset keyword matches nothing
passaPalavra_unset_fails(obj, f) ==
    Truthy(f.palavra)
    /\ Contains(nlower(OrEmpty(obj.objetoCompra)), nlower(f.palavra))

passaPalavra(obj, f) ==
    IF ~Truthy(f.palavra) THEN TRUE
    ELSE Contains(nlower(OrEmpty(obj.objetoCompra)), nlower(f.palavra))

passaUf(obj, f) ==
    IF ~Truthy(f.uf) THEN TRUE
    ELSE upper(OrEmpty(obj.uf)) = upper(f.uf)

passaOrgao(obj, f) ==
    IF ~Truthy(f.orgao) THEN TRUE
    ELSE Contains(nlower(OrEmpty(obj.razaoSocial)), nlower(f.orgao))

passaValor(obj, f) ==
    IF ~NumTruthy(f.minValor) THEN TRUE
    ELSE OrZero(obj.valorEstimado) >= f.minValor

bloqueiaBahia(obj) ==
    \/ upper(OrEmpty(obj.uf)) = <<"B", "A">>
    \/ Contains(nlower(OrEmpty(obj.razaoSocial)), <<"b", "a", "h", "i", "a">>)

score_of(obj, f) ==
      (IF passaPalavra(obj, f) THEN 35 ELSE 0)
    + (IF passaUf(obj, f) THEN 20 ELSE 0)
    + (IF passaOrgao(obj, f) THEN 10 ELSE 0)
    + (IF passaValor(obj, f) THEN 35 ELSE 0)

\* the threshold taken strictly
recomendacao_of_strict(score) == IF score > 70 THEN "prosseguir" ELSE "avaliar"

recomendacao_of(score) == IF score >= 70 THEN "prosseguir" ELSE "avaliar"

\* the score decides first, the exclusion only below 70
decide_score_score_first(obj, f) ==
    LET score == score_of(obj, f) IN
    IF score >= 70
    THEN [score |-> score, recomendacao |-> "prosseguir", motivo |-> MotivoAbsent]
    ELSE IF bloqueiaBahia(obj)
    THEN [score |-> score, recomendacao |-> "descartar", motivo |-> MotivoBahia]
    ELSE [score |-> score, recomendacao |-> "avaliar", motivo |-> MotivoAbsent]

decide_score(obj, f) ==
    LET score == score_of(obj, f) IN
    IF bloqueiaBahia(obj)
    THEN [score |-> score, recomendacao |-> "descartar", motivo |-> MotivoBahia]
    ELSE [score |-> score, recomendacao |-> recomendacao_of(score),
          motivo |-> MotivoAbsent]

-----------------------------------------------------------------------------
(* Record normaliser *)

\* float(valorEstimado) of a raw record: None stays None, a value float()
\* rejects becomes None
raw_valor(v) == IF v.ok THEN v.v ELSE NoneNum

normalize_one(i, f) ==
    LET nomeOrgao == IF Truthy(i.orgaoRazao) THEN i.orgaoRazao
                     ELSE OrEmpty(i.orgaoNome)
        res == [numeroControlePNCP |-> i.numeroControlePNCP,
                numeroCompra |-> i.numeroCompra,
                anoCompra |-> i.anoCompra,
                objetoCompra |-> OrEmpty(i.objetoCompra),
                valorEstimado |-> raw_valor(i.valorEstimado),
                dataAberturaProposta |-> i.dataAberturaProposta,
                dataEncerramentoProposta |-> i.dataEncerramentoProposta,
                razaoSocial |-> nomeOrgao,
                uf |-> OrEmpty(i.uf),
                linkSistemaOrigem |-> i.linkSistemaOrigem]
    IN res @@ [analise |-> decide_score(res, f)]

normalize_results(a, f) == [k \in 1..Len(a) |-> normalize_one(a[k], f)]

-----------------------------------------------------------------------------
(* main: filters, hard keyword filter, "at least one prosseguir" backstop *)

make_filtros(a) ==
    [palavra |-> a.palavra, uf |-> upper(OrEmpty(a.uf)), orgao |-> a.orgao,
     minValor |-> a.minValor]

softwareish_words ==
    << <<"s","o","f","t","w","a","r","e">>,
       <<"s","i","s","t","e","m","a">>,
       <<"a","p","l","i","c","a","t","i","v","o">>,
       <<"p","l","a","t","a","f","o","r","m","a">>,
       <<"l","i","c","e","n","c","a">>,
       <<"l","i","c","e","n","c,","a","s">>,
       <<"t","i">>,
       <<"i","n","f","o","r","m","a","t","i","c","a">>,
       <<"t","e","c","n","o","l","o","g","i","a"," ","d","a"," ","i","n","f","o","r","m","a","c","a","o">>,
       <<"n","u","v","e","m">>,
       <<"c","l","o","u","d">>,
       <<"e","r","p">>,
       <<"c","r","m">>,
       <<"b","a","n","c","o"," ","d","e"," ","d","a","d","o","s">>,
       <<"p","o","r","t","a","l">>,
       <<"w","e","b">>,
       <<"s","i","t","e">>,
       <<"b","a","c","k","u","p">>,
       <<"s","e","g","u","r","a","n","c","a"," ","d","a"," ","i","n","f","o","r","m","a","c","a","o">> >>

software_keys ==
    { <<"s","o","f","t","w","a","r","e">>,
      <<"t","i">>,
      <<"i","n","f","o","r","m","a","t","i","c","a">>,
      <<"t","e","c","n","o","l","o","g","i","a"," ","d","a"," ","i","n","f","o","r","m","a","c","a","o">> }

is_softwareish(text) ==
    \E w \in Range(softwareish_words) : Contains(nlower(OrEmpty(text)), w)

\* the synonyms applied whatever the keyword
keyword_filter_synonyms_always(rs, palavra) ==
    IF ~Truthy(palavra) THEN rs
    ELSE LET K(r) == is_softwareish(r.objetoCompra) IN SelectSeq(rs, K)

keyword_filter(rs, palavra) ==
    IF ~Truthy(palavra) THEN rs
    ELSE IF nlower(palavra) \in software_keys
         THEN LET K(r) == is_softwareish(r.objetoCompra) IN SelectSeq(rs, K)
         ELSE LET K(r) == Contains(nlower(OrEmpty(r.objetoCompra)), nlower(palavra))
              IN SelectSeq(rs, K)

score_key(r, palavra) ==
    r.analise.score
    + (IF Truthy(palavra) /\ Contains(nlower(OrEmpty(r.objetoCompra)), nlower(palavra))
       THEN 10 ELSE 0)

\* the first notice taken whatever its key
best_index_first(rs, palavra) == 1

\* Python's max(seq, key=...): the first element whose key is maximal
best_index(rs, palavra) ==
    CHOOSE b \in 1..Len(rs) :
        /\ \A k \in 1..Len(rs) : score_key(rs[k], palavra) <= score_key(rs[b], palavra)
        /\ \A k \in 1..(b - 1) : score_key(rs[k], palavra) < score_key(rs[b], palavra)

\* the floor added rather than compared
Max_sum(a, b) == a + b

Max(a, b) == IF a >= b THEN a ELSE b

backstop(rs, palavra) ==
    IF rs # <<>> /\ ~(\E k \in 1..Len(rs) : rs[k].analise.recomendacao = "prosseguir")
    THEN LET b == best_index(rs, palavra) IN
         [rs EXCEPT ![b].analise.recomendacao = "prosseguir",
                    ![b].analise.score = Max(80, rs[b].analise.score)]
    ELSE rs

-----------------------------------------------------------------------------
(* Text helpers: strip, replace, URLs *)

RECURSIVE LStrip(_)
LStrip(s) == IF s # <<>> /\ Head(s) = " " THEN LStrip(Tail(s)) ELSE s

RECURSIVE RStrip(_)
RStrip(s) ==
    IF s # <<>> /\ s[Len(s)] = " " THEN RStrip(SubSeq(s, 1, Len(s) - 1)) ELSE s

strip(s) == RStrip(LStrip(s))

\* str.find(sub) + 1: the first position where sub occurs in s, 0 when none
IndexOf(s, sub) ==
    IF Contains(s, sub)
    THEN 1 + (CHOOSE k \in 0..(Len(s) - Len(sub)) :
                /\ SubSeq(s, k + 1, k + Len(sub)) = sub
                /\ \A j \in 0..(k - 1) : SubSeq(s, j + 1, j + Len(sub)) # sub)
    ELSE 0

RECURSIVE Replace(_, _, _)
Replace(s, old, new) ==
    IF old = <<>> \/ ~Contains(s, old) THEN s
    ELSE LET k == IndexOf(s, old) IN
         SubSeq(s, 1, k - 1) \o new \o Replace(SubSeq(s, k + Len(old), Len(s)), old, new)

\* the first element of s that satisfies P, NoneStr when none does
FirstWhere(s, P(_)) ==
    LET hits == SelectSeq(s, P) IN IF hits = <<>> THEN NoneStr ELSE Head(hits)

RECURSIVE Dedup(_, _)
Dedup(s, seen) ==
    IF s = <<>> THEN <<>>
    ELSE IF Head(s) \in seen THEN Dedup(Tail(s), seen)
         ELSE <<Head(s)>> \o Dedup(Tail(s), seen \cup {Head(s)})

HTTPS == <<"h","t","t","p","s",":","/","/">>

\* re.match(r"^[a-z]+://", url, re.I)
has_scheme(u) ==
    LET k == IndexOf(u, <<":","/","/">>) IN
    k > 1 /\ \A j \in 1..(k - 1) : LowerChar(u[j]) \in Range(LowerAlpha)

normalize_url(raw) ==
    IF ~Truthy(raw) THEN <<>>
    ELSE LET url == Replace(strip(raw), <<"&","a","m","p",";">>, <<"&">>)
             u2  == IF StartsWith(url, <<"w","w","w",".">>) THEN HTTPS \o url ELSE url
         IN IF has_scheme(u2) THEN u2 ELSE HTTPS \o u2

\* urljoin(base, href) for a base that has a scheme: an absolute href is kept,
\* a rooted one replaces the path, a relative one replaces the last segment
abs_url(href, base) ==
    IF href = <<>> THEN base
    ELSE IF has_scheme(href) THEN href
    ELSE LET k      == IndexOf(base, <<":","/","/">>) + 2
             rest   == SubSeq(base, k + 1, Len(base))
             slash  == IndexOf(rest, <<"/">>)
             slashes == {j \in 1..Len(rest) : rest[j] = "/"}
             last   == CHOOSE j \in slashes : \A q \in slashes : q <= j
             origin == IF slash = 0 THEN base ELSE SubSeq(base, 1, k + slash - 1)
             dir    == IF slash = 0 THEN base \o <<"/">> ELSE SubSeq(base, 1, k + last)
         IN IF Head(href) = "/" THEN origin \o href ELSE dir \o href

-----------------------------------------------------------------------------
(* Document discovery *)

W_PDF == <<".","p","d","f">>
W_EDITAL == <<"e","d","i","t","a","l">>

PDF_CANDIDATE_TEXT ==
    { W_EDITAL, <<"a","n","e","x","o">>, <<"i","t","e","n","s">>, <<"i","t","e","m">>,
      <<"t","e","r","m","o">>, <<"r","e","f","e","r","e","n","c","i","a">>,
      <<"r","e","f","e","r","e^","n","c","i","a">>, <<"a","r","q","u","i","v","o">>,
      <<"d","o","w","n","l","o","a","d">> }

ANEXO_WORDS ==
    { <<"a","n","e","x","o">>, <<"i","t","e","n","s">>, <<"i","t","e","m">>,
      <<"t","e","r","m","o">>, <<"r","e","f","e","r","e","n","c","i","a">> }

\* re.search(words, text, re.I)
SearchAny(words, text) == \E w \in words : Contains(lower(text), w)

\* A page is its anchors (href, visible text), its data-href attributes, the
\* window.open(...) targets of its scripts, and the lines of its visible text.
candidate_hrefs(html) ==
    LET IsCand(a) == \/ EndsWith(lower(strip(a.href)), W_PDF)
                     \/ SearchAny(PDF_CANDIDATE_TEXT, strip(a.text))
        picked == SelectSeq(html.anchors, IsCand)
    IN [k \in 1..Len(picked) |-> strip(picked[k].href)] \o html.data \o html.js

\* the annex taken without comparing it to the primary
find_pdf_links_same_allowed(page_url, html) ==
    LET hrefs == candidate_hrefs(html)
        urls  == [k \in 1..Len(hrefs) |-> abs_url(hrefs[k], page_url)]
        NonEmpty(u) == u # <<>>
        uniq  == Dedup(SelectSeq(urls, NonEmpty), {})
        IsEdital(u) == SearchAny({W_EDITAL}, u)
        byName == FirstWhere(uniq, IsEdital)
        edital == IF Truthy(byName) THEN byName
                  ELSE IF uniq # <<>> THEN uniq[1] ELSE NoneStr
        IsAnexo(u) == SearchAny(ANEXO_WORDS, u)
    IN [edital |-> edital, anexo |-> FirstWhere(uniq, IsAnexo)]

find_pdf_links(page_url, html) ==
    LET hrefs == candidate_hrefs(html)
        urls  == [k \in 1..Len(hrefs) |-> abs_url(hrefs[k], page_url)]
        NonEmpty(u) == u # <<>>
        uniq  == Dedup(SelectSeq(urls, NonEmpty), {})
        IsEdital(u) == SearchAny({W_EDITAL}, u)
        byName == FirstWhere(uniq, IsEdital)
        edital == IF Truthy(byName) THEN byName
                  ELSE IF uniq # <<>> THEN uniq[1] ELSE NoneStr
        IsAnexo(u) == SearchAny(ANEXO_WORDS, u) /\ u # edital
    IN [edital |-> edital, anexo |-> FirstWhere(uniq, IsAnexo)]

\* The answer of the server to HEAD and to the fallback GET of ensure_pdf_url:
\* the content type of each ("pdf", "html") or "raise", and the final URL
ensure_pdf_url(u, o) ==
    IF ~Truthy(u) THEN NoneStr
    ELSE IF o.head = "raise" THEN NoneStr
    ELSE IF o.head = "pdf" THEN o.url
    ELSE IF o.get = "pdf" THEN o.url
    ELSE NoneStr

-----------------------------------------------------------------------------
(* Money *)

Digits == <<"0","1","2","3","4","5","6","7","8","9">>
IsDigit(c) == c \in Range(Digits)
DigitVal(c) == Pos(Digits, c) - 1
IsMoneyChar(c) == IsDigit(c) \/ c = "," \/ c = "."
DASH == <<"--">>

RECURSIVE NumVal(_)
NumVal(s) ==
    IF s = <<>> THEN 0
    ELSE NumVal(SubSeq(s, 1, Len(s) - 1)) * 10 + DigitVal(s[Len(s)])

\* the thousands separators left in the text float() is given
money_br_to_number_keeps_dots(s) ==
    IF ~Truthy(s) THEN NoneNum
    ELSE LET t == SelectSeq(s, IsMoneyChar)
             IsComma(c) == c = ","
             IsDot(c) == c = "."
             seps == Len(SelectSeq(t, IsComma)) + Len(SelectSeq(t, IsDot))
             k == IndexOf(t, <<",">>)
             int  == IF k = 0 THEN t ELSE SubSeq(t, 1, k - 1)
             frac == IF k = 0 THEN <<>> ELSE SubSeq(t, k + 1, Len(t))
             two  == SubSeq(frac \o <<"0","0">>, 1, 2)
         IN IF seps > 1 \/ Len(t) = seps THEN NoneNum
            ELSE NumVal(int) * 100 + NumVal(two)

\* float() of digits with at most one decimal point, in centavos (digits
\* after the second decimal are dropped); NoneNum where float() raises
money_br_to_number(s) ==
    IF ~Truthy(s) THEN NoneNum
    ELSE LET NotDot(c) == c # "."
             t == SelectSeq(SelectSeq(s, IsMoneyChar), NotDot)
             IsComma(c) == c = ","
             commas == Len(SelectSeq(t, IsComma))
             k == IndexOf(t, <<",">>)
             int  == IF k = 0 THEN t ELSE SubSeq(t, 1, k - 1)
             frac == IF k = 0 THEN <<>> ELSE SubSeq(t, k + 1, Len(t))
             two  == SubSeq(frac \o <<"0","0">>, 1, 2)
         IN IF commas > 1 \/ Len(t) = commas THEN NoneNum
            ELSE NumVal(int) * 100 + NumVal(two)

RECURSIVE DigitsOf(_)
DigitsOf(n) ==
    IF n < 10 THEN <<Digits[n + 1]>>
    ELSE DigitsOf(n \div 10) \o <<Digits[(n % 10) + 1]>>

RECURSIVE Grouped(_)
Grouped(n) ==
    IF n < 1000 THEN DigitsOf(n)
    ELSE Grouped(n \div 1000) \o <<".">>
         \o <<Digits[((n \div 100) % 10) + 1], Digits[((n \div 10) % 10) + 1],
              Digits[(n % 10) + 1]>>

\* f"R$ {v:,.2f}" with "," and "." exchanged, for v in centavos; the format
\* writes the sign of a negative v before its digits
fmt_money_br(v) ==
    IF v = NoneNum THEN DASH
    ELSE LET a == IF v < 0 THEN 0 - v ELSE v IN
         <<"R","$"," ">> \o (IF v < 0 THEN <<"-">> ELSE <<>>)
         \o Grouped(a \div 100) \o <<",">>
         \o <<Digits[((a \div 10) % 10) + 1], Digits[(a % 10) + 1]>>

human_val_txt(v) == IF v # NoneNum THEN fmt_money_br(v) ELSE DASH

-----------------------------------------------------------------------------
(* Field extraction.  A text is a sequence of lines; a line is the label it *)
(* opens with, whether "R$" stands before what follows, and what follows    *)
(* the label (cap).  A pattern is the set of labels in which its regular     *)
(* expression finds a match (`any` for a pattern with no label), whether it  *)
(* needs the literal "R$", whether its group is [\d\.\,] and the least       *)
(* length of the group.                                                      *)

RECURSIVE MoneyPrefix(_)
MoneyPrefix(s) ==
    IF s # <<>> /\ IsMoneyChar(Head(s)) THEN <<Head(s)>> \o MoneyPrefix(Tail(s))
    ELSE <<>>

Pat(labels, any, rs, money, min) ==
    [labels |-> labels, any |-> any, rs |-> rs, money |-> money, min |-> min]

PDF_PATTERNS_VALOR ==
    << Pat({"valor estimado"}, FALSE, FALSE, TRUE, 1),
       Pat({"valor global"}, FALSE, FALSE, TRUE, 1),
       Pat({"preco estimado"}, FALSE, FALSE, TRUE, 1) >>

PDF_PATTERNS_OBJETO ==
    << Pat({"objeto", "do objeto"}, FALSE, FALSE, FALSE, 1),
       Pat({"do objeto"}, FALSE, FALSE, FALSE, 1) >>

PDF_PATTERNS_ABERTURA ==
    << Pat({"abertura", "abertura das propostas", "sessao de abertura"},
           FALSE, FALSE, FALSE, 1),
       Pat({"sessao de abertura"}, FALSE, FALSE, FALSE, 1) >>

PDF_PATTERNS_ENCERRAMENTO ==
    << Pat({"encerramento", "encerramento da entrega", "encerramento recepcao"},
           FALSE, FALSE, FALSE, 1) >>

HTML_PATTERNS_VALOR ==
    << Pat({"valor estimado", "valor global", "valor total"}, FALSE, FALSE, TRUE, 1),
       Pat({}, TRUE, TRUE, TRUE, 3) >>

\* group(1) of the pattern at a line
group1(p, l) == IF p.money THEN MoneyPrefix(l.cap) ELSE l.cap

matches(p, l) ==
    /\ p.any \/ l.label \in p.labels
    /\ p.rs => l.rs
    /\ Len(group1(p, l)) >= p.min

\* pat.search(text): the first line the pattern matches, as a sequence of
\* at most one line
search(p, text) ==
    LET M(l) == matches(p, l)
        hits == SelectSeq(text, M)
    IN IF hits = <<>> THEN <<>> ELSE <<Head(hits)>>

RECURSIVE pick_first(_, _)
pick_first(text, patterns) ==
    IF text = <<>> \/ patterns = <<>> THEN NoneStr
    ELSE LET m == search(Head(patterns), text) IN
         IF m # <<>> /\ group1(Head(patterns), m[1]) # <<>>
         THEN strip(group1(Head(patterns), m[1]))
         ELSE pick_first(text, Tail(patterns))

extract_fields_from_pdf_text(edital_txt, anexo_txt) ==
    LET full == edital_txt \o anexo_txt IN
    [objetoCompra |-> pick_first(edital_txt, PDF_PATTERNS_OBJETO),
     valorEstimado |-> money_br_to_number(pick_first(full, PDF_PATTERNS_VALOR)),
     abertura |-> pick_first(full, PDF_PATTERNS_ABERTURA),
     encerramento |-> pick_first(full, PDF_PATTERNS_ENCERRAMENTO)]

RECURSIVE html_value(_, _)
html_value(text, patterns) ==
    IF patterns = <<>> THEN NoneNum
    ELSE LET m == search(Head(patterns), text) IN
         IF m # <<>> THEN money_br_to_number(group1(Head(patterns), m[1]))
         ELSE html_value(text, Tail(patterns))

extract_value_from_html(html) == html_value(html.lines, HTML_PATTERNS_VALOR)

-----------------------------------------------------------------------------
(* AI feed reconciliation.  ai.por_item is a dict in insertion order: a      *)
(* sequence of [k |-> key, v |-> entry] with distinct keys.  An entry is a    *)
(* function from the field names it has to their values; a null value is      *)
(* NoneStr (texts, lists), NoneRec (recomendacao) or NoneNum (score_ai).      *)
(* ai.metricas is a function from the metric names it has to their values.    *)

NoneRec == "<None>"
EmptyEntry == <<>>

Get(e, f, none) == IF f \in DOMAIN e THEN e[f] ELSE none
SetDefault(e, f, v) == IF f \in DOMAIN e THEN e ELSE (f :> v) @@ e
Put(e, f, v) == (f :> v) @@ e

\* str(anoCompra)
str_ano(y) == IF y = NoneNum THEN <<"N","o","n","e">> ELSE DigitsOf(y)

\* f"{r.numeroCompra}/{r.anoCompra}"
compound_key(r) == r.numeroCompra \o <<"/">> \o str_ano(r.anoCompra)

\* the bare purchase number tried first, the control number last
key_candidates_for_reversed(r) ==
    (IF Truthy(r.numeroCompra)
     THEN <<r.numeroCompra>>
          \o (IF NumTruthy(r.anoCompra) THEN <<compound_key(r)>> ELSE <<>>)
     ELSE <<>>)
    \o (IF Truthy(r.numeroControlePNCP) THEN <<r.numeroControlePNCP>> ELSE <<>>)

key_candidates_for(r) ==
    (IF Truthy(r.numeroControlePNCP) THEN <<r.numeroControlePNCP>> ELSE <<>>)
    \o (IF Truthy(r.numeroCompra)
        THEN (IF NumTruthy(r.anoCompra) THEN <<compound_key(r)>> ELSE <<>>)
             \o <<r.numeroCompra>>
        ELSE <<>>)

\* the position of key k in por_item, 0 when k is not a key
KeyIndex(por_item, k) ==
    IF \E j \in 1..Len(por_item) : por_item[j].k = k
    THEN CHOOSE j \in 1..Len(por_item) : por_item[j].k = k
    ELSE 0

MinOf(S) == CHOOSE x \in S : \A y \in S : x <= y

\* the position in por_item of the entry resolve_ai_item returns, 0 for None
resolve_ai_item(por_item, r) ==
    LET Has(k) == KeyIndex(por_item, k) # 0
        direct == SelectSeq(key_candidates_for(r), Has)
        fuzzy  == {j \in 1..Len(por_item) : Contains(por_item[j].k, r.numeroCompra)}
    IN IF direct # <<>> THEN KeyIndex(por_item, Head(direct))
       ELSE IF Truthy(r.numeroCompra) /\ fuzzy # {} THEN MinOf(fuzzy)
       ELSE 0

LICITACAO == <<"L","i","c","i","t","a","c,","a~","o">>

Prefix(s, n) == SubSeq(s, 1, IF Len(s) < n THEN Len(s) ELSE n)

pontos_heuristic(r) ==
    LET obj == lower(OrEmpty(r.objetoCompra))
        AnyIn(ws) == \E w \in ws : Contains(obj, w)
        pos == (IF AnyIn({<<"m","e","r","e","n","d","a">>, <<"a","l","i","m","e","n","t","o">>,
                        <<"e","s","c","o","l","a">>})
                THEN <<"Demanda recorrente (rede escolar)",
                       "Entrega fracionada facilita logistica">> ELSE <<>>)
            \o (IF AnyIn({<<"t","i">>, <<"i","n","f","o","r","m","a'","t">>,
                        <<"i","n","f","o","r","m","a","t">>})
                THEN <<"Ampla oferta de marcas e insumos",
                       "Distribuicao simplificada">> ELSE <<>>)
            \o (IF AnyIn({<<"o","b","r","a">>, <<"e","n","g","e","n","h","a","r","i","a">>,
                        <<"m","a","n","u","t","e","n","c,","a~","o"," ","p","r","e","d","i","a","l">>})
                THEN <<"Escopo padronizado no edital", "Cronograma definido">> ELSE <<>>)
    IN Prefix(IF pos = <<>>
              THEN <<"Escopo com boa previsibilidade", "Regras objetivas no edital">>
              ELSE pos, 3)

riscos_heuristic(r) ==
    Prefix(<<"Exigencias de habilitacao podem restringir competicao",
             "Risco de atraso logistico/entrega">>
           \o (IF OrZero(r.valorEstimado) > 0
               THEN <<"Possivel glosa por sobrepreco frente ao estimado">> ELSE <<>>), 3)

ListTruthy(l) == l # NoneStr /\ l # <<>>
RecTruthy(x) == x # NoneRec /\ x # ""

\* lines 498-528: the defaults of one entry for one notice
fill_entry(e, r) ==
    LET e1 == SetDefault(e, "titulo",
                         IF Truthy(r.objetoCompra) THEN r.objetoCompra ELSE LICITACAO)
        e2 == SetDefault(e1, "valor_estimado_texto", human_val_txt(r.valorEstimado))
        e3 == IF ListTruthy(Get(e2, "pontos_positivos", NoneStr)) THEN e2
              ELSE Put(e2, "pontos_positivos", pontos_heuristic(r))
        e4 == IF ListTruthy(Get(e3, "riscos", NoneStr)) THEN e3
              ELSE Put(e3, "riscos", riscos_heuristic(r))
        e5 == IF RecTruthy(Get(e4, "recomendacao", NoneRec)) THEN e4
              ELSE Put(e4, "recomendacao", r.analise.recomendacao)
    IN IF Get(e5, "score_ai", NoneNum) # NoneNum THEN e5
       ELSE Put(e5, "score_ai", r.analise.score)

\* the key under which ensure_ai_defaults creates an entry, NoneStr for none
new_key(r) ==
    IF Truthy(r.numeroControlePNCP) THEN r.numeroControlePNCP
    ELSE IF Truthy(r.numeroCompra) THEN compound_key(r)
    ELSE NoneStr

\* one pass of the loop of ensure_ai_defaults, for notice r
defaults_step(por_item, r) ==
    LET j     == resolve_ai_item(por_item, r)
        found == j # 0 /\ DOMAIN por_item[j].v # {}
        key   == new_key(r)
        at    == KeyIndex(por_item, key)
    IN IF found
       THEN [por_item EXCEPT ![j].v = fill_entry(por_item[j].v, r)]
       ELSE IF ~Truthy(key) THEN por_item
       ELSE IF at # 0
            THEN [por_item EXCEPT ![at].v = fill_entry(EmptyEntry, r)]
            ELSE Append(por_item, [k |-> key, v |-> fill_entry(EmptyEntry, r)])

RECURSIVE defaults_loop(_, _, _)
defaults_loop(por_item, rs, i) ==
    IF i > Len(rs) THEN por_item
    ELSE defaults_loop(defaults_step(por_item, rs[i]), rs, i + 1)

ensure_ai_defaults(feed, rs) ==
    [feed EXCEPT !.por_item = defaults_loop(feed.por_item, rs, 1)]

\* the recommendation ensure_ai_metrics tallies for notice r
tallied_rec(por_item, r) ==
    LET j   == resolve_ai_item(por_item, r)
        per == IF j = 0 THEN EmptyEntry ELSE por_item[j].v
        rec == Get(per, "recomendacao", NoneRec)
    IN IF RecTruthy(rec) THEN rec ELSE r.analise.recomendacao

\* the tier counts assigned rather than defaulted
ensure_ai_metrics_overwrite(feed, rs) ==
    LET m  == feed.metricas
        m1 == IF Get(m, "total", NoneNum) = NoneNum THEN Put(m, "total", Len(rs)) ELSE m
        count(t) == Cardinality({k \in 1..Len(rs) : tallied_rec(feed.por_item, rs[k]) = t})
        m2 == Put(m1, "prosseguir", count("prosseguir"))
        m3 == Put(m2, "avaliar", count("avaliar"))
    IN [feed EXCEPT !.metricas = Put(m3, "descartar", count("descartar"))]

\* the tier counts added to the counts already there
ensure_ai_metrics_accumulate(feed, rs) ==
    LET m  == feed.metricas
        m1 == IF Get(m, "total", NoneNum) = NoneNum THEN Put(m, "total", Len(rs)) ELSE m
        count(t) == Cardinality({k \in 1..Len(rs) : tallied_rec(feed.por_item, rs[k]) = t})
        had(t) == IF Get(m, t, NoneNum) = NoneNum THEN 0 ELSE m[t]
        m2 == Put(m1, "prosseguir", had("prosseguir") + count("prosseguir"))
        m3 == Put(m2, "avaliar", had("avaliar") + count("avaliar"))
    IN [feed EXCEPT !.metricas = Put(m3, "descartar", had("descartar") + count("descartar"))]

ensure_ai_metrics(feed, rs) ==
    LET m  == feed.metricas
        m1 == IF Get(m, "total", NoneNum) = NoneNum THEN Put(m, "total", Len(rs)) ELSE m
        count(t) == Cardinality({k \in 1..Len(rs) : tallied_rec(feed.por_item, rs[k]) = t})
        m2 == SetDefault(m1, "prosseguir", count("prosseguir"))
        m3 == SetDefault(m2, "avaliar", count("avaliar"))
    IN [feed EXCEPT !.metricas = SetDefault(m3, "descartar", count("descartar"))]

\* the index (from 1) of the featured notice, 0 for None
match_ai_featured(feed, itens) ==
    LET alvo == IF feed.destaques = <<>> THEN <<>>
                ELSE strip(OrEmpty(feed.destaques[1].numero))
        key_na(r) == IF Truthy(r.numeroCompra) THEN compound_key(r) ELSE <<>>
        key_full(r) == IF Truthy(r.numeroControlePNCP) THEN r.numeroControlePNCP
                       ELSE key_na(r)
        T1 == {k \in 1..Len(itens) : key_full(itens[k]) # <<>> /\ key_full(itens[k]) = alvo}
        T2 == {k \in 1..Len(itens) : key_na(itens[k]) # <<>> /\ key_na(itens[k]) = alvo}
        T3 == {k \in 1..Len(itens) :
                 /\ Truthy(itens[k].numeroCompra)
                 /\ \/ alvo = itens[k].numeroCompra
                    \/ StartsWith(alvo, itens[k].numeroCompra)}
    IN IF ~feed.present \/ feed.destaques = <<>> \/ alvo = <<>> THEN 0
       ELSE IF T1 # {} THEN MinOf(T1)
       ELSE IF T2 # {} THEN MinOf(T2)
       ELSE IF T3 # {} THEN MinOf(T3)
       ELSE 0

-----------------------------------------------------------------------------
(* Inputs *)

STR_TI == <<"t","i">>
STR_OBRA == <<"o","b","r","a">>
STR_PREF == <<"P","R","E","F">>
OBJ_GESTAO_TI == <<"G","e","s","t","a~","o"," ","T","I">>
OBJ_OBRA == <<"O","b","r","a">>
OBJ_SISTEMA == <<"S","i","s","t","e","m","a">>
ORG_BAHIA == <<"G","o","v"," ","B","A","H","I'","A">>
ORG_PREF_SP == <<"P","r","e","f"," ","S","P">>
UF_SP == <<"S","P">>
UF_sp == <<"s","p">>
UF_BA == <<"B","A">>
UF_ba == <<"b","a">>
UF_RJ == <<"R","J">>
KEY_P1 == <<"P","1">>
NUM_9 == <<"9">>
NUM_90 == <<"9","0">>
LINK_PAGE == <<"w","w","w",".","h","/","p">>
LINK_PDF == <<"h","/","e",".","P","D","F">>
URL_REDIRECT == <<"h","t","t","p","s",":","/","/","h","/","r",".","p","d","f">>
DATE_0101 == <<"0","1","/","0","1">>

Num(v) == [ok |-> TRUE, v |-> v]
Junk == [ok |-> FALSE, v |-> NoneNum]

\* raw records that differ in the fields decide_score reads
ScoreRaws ==
    { [numeroControlePNCP |-> NoneStr, numeroCompra |-> NoneStr, anoCompra |-> NoneNum,
       objetoCompra |-> o, valorEstimado |-> v,
       dataAberturaProposta |-> NoneStr, dataEncerramentoProposta |-> NoneStr,
       orgaoRazao |-> g, orgaoNome |-> n, uf |-> u, linkSistemaOrigem |-> NoneStr] :
      o \in {NoneStr, OBJ_GESTAO_TI, OBJ_OBRA},
      v \in {Num(NoneNum), Junk, Num(0), Num(5000), Num(10000)},
      g \in {NoneStr, ORG_PREF_SP, ORG_BAHIA},
      n \in {NoneStr, ORG_BAHIA},
      u \in {NoneStr, UF_SP, UF_sp, UF_BA, UF_ba, UF_RJ} }

ScoreFiltros ==
    [palavra : {<<>>, NoneStr, STR_TI, STR_OBRA},
     uf : {<<>>, UF_SP, UF_sp, UF_BA},
     orgao : {<<>>, STR_PREF},
     minValor : {0, 5000, 10000}]

\* the raw records of the pipeline runs
RAW_TI ==
    [numeroControlePNCP |-> KEY_P1, numeroCompra |-> NUM_9, anoCompra |-> 2025,
     objetoCompra |-> OBJ_GESTAO_TI, valorEstimado |-> Num(NoneNum),
     dataAberturaProposta |-> NoneStr, dataEncerramentoProposta |-> NoneStr,
     orgaoRazao |-> ORG_PREF_SP, orgaoNome |-> NoneStr, uf |-> UF_SP,
     linkSistemaOrigem |-> LINK_PAGE]
RAW_OBRA_BA ==
    [numeroControlePNCP |-> NoneStr, numeroCompra |-> NUM_90, anoCompra |-> 2025,
     objetoCompra |-> OBJ_OBRA, valorEstimado |-> Num(5000),
     dataAberturaProposta |-> DATE_0101, dataEncerramentoProposta |-> NoneStr,
     orgaoRazao |-> NoneStr, orgaoNome |-> ORG_BAHIA, uf |-> UF_BA,
     linkSistemaOrigem |-> LINK_PDF]
RAW_EMPTY ==
    [numeroControlePNCP |-> NoneStr, numeroCompra |-> NoneStr, anoCompra |-> NoneNum,
     objetoCompra |-> NoneStr, valorEstimado |-> Junk,
     dataAberturaProposta |-> NoneStr, dataEncerramentoProposta |-> NoneStr,
     orgaoRazao |-> NoneStr, orgaoNome |-> NoneStr, uf |-> NoneStr,
     linkSistemaOrigem |-> NoneStr]
RAW_SISTEMA ==
    [numeroControlePNCP |-> NoneStr, numeroCompra |-> NUM_9, anoCompra |-> NoneNum,
     objetoCompra |-> OBJ_SISTEMA, valorEstimado |-> Num(20000),
     dataAberturaProposta |-> NoneStr, dataEncerramentoProposta |-> NoneStr,
     orgaoRazao |-> ORG_PREF_SP, orgaoNome |-> NoneStr, uf |-> UF_RJ,
     linkSistemaOrigem |-> LINK_PAGE]

MainRaws == {RAW_TI, RAW_OBRA_BA, RAW_EMPTY, RAW_SISTEMA}

SeqsUpTo(S, n) == UNION {[1..k -> S] : k \in 0..n}

\* the command lines of the pipeline runs; the runs that read documents
\* set no minimum value
MainArgs ==
    { a \in [palavra : {<<>>, STR_TI, STR_OBRA}, uf : {<<>>}, orgao : {<<>>},
             minValor : {0, 10000}, token : BOOLEAN, ai : BOOLEAN] :
        a.token => a.minValor = 0 }

Line(label, rs, cap) == [label |-> label, rs |-> rs, cap |-> cap]
Anchor(href, text) == [href |-> href, text |-> text]

PAGE_EMPTY == [anchors |-> <<>>, data |-> <<>>, js |-> <<>>, lines |-> <<>>]
PAGE_LINKS ==
    [anchors |-> << Anchor(<<"a","n","e","x","o","1",".","p","d","f">>, <<"A","n","e","x","o"," ","I">>),
                    Anchor(<<"/","x">>, <<"C","o","n","t","a","t","o">>),
                    Anchor(<<" ","/","e","d","i","t","a","l",".","p","d","f">>, <<"B","a","i","x","a","r">>) >>,
     data |-> <<>>,
     js |-> << <<"h","t","t","p","s",":","/","/","c","/","t","e","r","m","o">> >>,
     lines |-> <<>>]
PAGE_DOWNLOAD ==
    [anchors |-> << Anchor(<<"/","d","o","c">>, <<"D","o","w","n","l","o","a","d">>) >>,
     data |-> <<>>, js |-> <<>>,
     lines |-> << Line("outro", TRUE, <<"1",".","2","3","4",",","5","6">>) >>]
PAGE_VALOR ==
    [anchors |-> <<>>, data |-> <<>>, js |-> <<>>,
     lines |-> << Line("valor total", FALSE, <<"5","0",",","0","0">>) >>]

Pages == {PAGE_LINKS, PAGE_DOWNLOAD, PAGE_VALOR}

TXT_EDITAL ==
    << Line("objeto", FALSE, <<"C","o","m","p","r","a"," ","T","I">>),
       Line("valor estimado", TRUE, <<"1",".","2","3","4",",","5","6">>),
       Line("abertura", FALSE, <<"1","0","/","0","1">>) >>
TXT_BAD_VALOR ==
    << Line("valor estimado", TRUE, <<",">>),
       Line("valor global", TRUE, <<"5","0",",","0","0">>) >>
TXT_ANEXO ==
    << Line("do objeto", FALSE, <<"X">>),
       Line("encerramento", FALSE, <<"2","0","/","0","1">>) >>

DocTexts == {TXT_EDITAL, TXT_BAD_VALOR, TXT_ANEXO}

\* what the server can answer to the HEAD and GET of ensure_pdf_url(u)
VerifyAnswers(u) ==
    { [head |-> "pdf", get |-> "pdf", url |-> u],
      [head |-> "pdf", get |-> "pdf", url |-> URL_REDIRECT],
      [head |-> "html", get |-> "pdf", url |-> u],
      [head |-> "html", get |-> "html", url |-> u],
      [head |-> "html", get |-> "raise", url |-> u],
      [head |-> "raise", get |-> "raise", url |-> u] }

NoMetricas == <<>>
NoFeed == [present |-> FALSE, por_item |-> <<>>, metricas |-> NoMetricas, destaques |-> <<>>]
\* {"resumo": {"executivo": "Falha IA: ..."}}
FailureFeed == [present |-> TRUE, por_item |-> <<>>, metricas |-> NoMetricas, destaques |-> <<>>]

ENTRY_FULL ==
    [titulo |-> <<"T">>, valor_estimado_texto |-> <<"R","$"," ","1">>,
     pontos_positivos |-> <<"ponto da IA">>, riscos |-> <<"risco da IA">>,
     recomendacao |-> "descartar", score_ai |-> 55]
ENTRY_NULLS ==
    [titulo |-> NoneStr, pontos_positivos |-> NoneStr, riscos |-> <<>>,
     recomendacao |-> "", score_ai |-> NoneNum]
ENTRY_REC == [recomendacao |-> "avaliar"]

FeedKeys == {KEY_P1, NUM_9, NUM_90, <<"9","/","2","0","2","5">>, <<"X","9","0">>}

MetricNames == {"total", "prosseguir", "avaliar", "descartar"}
Metricas ==
    { NoMetricas,
      [total |-> 7, prosseguir |-> 7],
      [total |-> NoneNum, avaliar |-> 0],
      [total |-> 7, prosseguir |-> 0, avaliar |-> 7, descartar |-> 0] }

Destaques ==
    { <<>>, <<[numero |-> NoneStr]>>, <<[numero |-> <<" ">>]>>,
      <<[numero |-> <<" ","9","0">>], [numero |-> KEY_P1]>>,
      <<[numero |-> KEY_P1]>>, <<[numero |-> <<"9","/","2","0","2","5">>]>>,
      <<[numero |-> <<"9","/","N","o","n","e">>]>> }

\* the feeds call_openai_summary returns in the pipeline runs
MainFeeds ==
    { [present |-> TRUE, por_item |-> p, metricas |-> m, destaques |-> d] :
        p \in {<<>>, <<[k |-> NUM_90, v |-> ENTRY_REC]>>},
        m \in {NoMetricas, [total |-> 7, prosseguir |-> 7]},
        d \in {<<>>, <<[numero |-> NUM_90]>>} }

FeedEntries == {EmptyEntry, ENTRY_FULL, ENTRY_NULLS}

\* dicts of at most n entries over FeedKeys, in every insertion order
FeedPorItems(n) ==
    { p \in SeqsUpTo([k : FeedKeys, v : FeedEntries], n) :
        \A a, b \in 1..Len(p) : a # b => p[a].k # p[b].k }

Feed(p, m, d) == [present |-> TRUE, por_item |-> p, metricas |-> m, destaques |-> d]

\* the feeds of the reconciliation runs
RichFeeds ==
    { Feed(p, NoMetricas, <<>>) : p \in FeedPorItems(MaxKeys) }
    \cup { Feed(p, m, d) :
             p \in {<<>>, <<[k |-> NUM_90, v |-> ENTRY_REC]>>,
                    <<[k |-> KEY_P1, v |-> ENTRY_FULL]>>},
             m \in Metricas, d \in Destaques }

AIArgs ==
    { [palavra |-> <<>>, uf |-> <<>>, orgao |-> <<>>, minValor |-> 0,
       token |-> FALSE, ai |-> TRUE],
      [palavra |-> <<>>, uf |-> UF_SP, orgao |-> <<>>, minValor |-> 10000,
       token |-> FALSE, ai |-> TRUE] }

-----------------------------------------------------------------------------
(* main *)

NoCand == [edital |-> NoneStr, anexo |-> NoneStr]

\* extracted when the documents gave no field, or were not read in this pass
NoExtracted ==
    [objetoCompra |-> NoneStr, valorEstimado |-> NoneNum,
     abertura |-> NoneStr, encerramento |-> NoneStr]

\* the locals of the enrichment loop before a pass
NoLocals ==
    /\ page_html = PAGE_EMPTY
    /\ cand = NoCand
    /\ edital_url = NoneStr
    /\ anexo_url = NoneStr
    /\ verified = {}
    /\ extracted = NoExtracted

\* no function is applied on its own in a run of main
NoCall == "<none>"

\* main before line 890: no payload is built yet
NoPayload == <<>>

\* line 890: asdict copies every notice as it is at that line
make_payload(rs, f) == [total |-> Len(rs), resultados |-> rs, filtros |-> f]

Idle ==
    /\ ai_payload = NoPayload
    /\ idx = 0
    /\ NoLocals
    /\ ai = NoFeed
    /\ featured = 0
    /\ call = NoCall
    /\ ret = NoCall

locals == <<page_html, cand, edital_url, anexo_url, verified, extracted>>

Init ==
    /\ pc = "fetched"
    /\ args \in MainArgs
    /\ filtros = make_filtros(args)
    /\ arr \in SeqsUpTo(MainRaws, MaxArr)
    /\ resultados = <<>>
    /\ Idle

\* line 865
Normalize ==
    /\ pc = "fetched"
    /\ resultados' = normalize_results(arr, filtros)
    /\ pc' = "normalized"
    /\ UNCHANGED <<ai_payload, call, ret, args, filtros, arr, idx, locals, ai, featured>>

\* lines 866-878
KeywordFilter ==
    /\ pc = "normalized"
    /\ resultados' = keyword_filter(resultados, args.palavra)
    /\ pc' = "filtered"
    /\ UNCHANGED <<ai_payload, call, ret, args, filtros, arr, idx, locals, ai, featured>>

\* lines 879-890: the backstop, then ai_payload
Backstop ==
    /\ pc = "filtered"
    /\ resultados' = backstop(resultados, args.palavra)
    /\ ai_payload' = make_payload(resultados', filtros)
    /\ idx' = 1
    /\ pc' = IF resultados = <<>> THEN "ai" ELSE "page"
    /\ UNCHANGED <<call, ret, args, filtros, arr, locals, ai, featured>>

\* the answers to requests.get(link): a page, or PAGE_EMPTY for a response
\* that is not ok and for an exception
PageAnswers(link) == IF link = <<>> THEN {PAGE_EMPTY} ELSE Pages \cup {PAGE_EMPTY}

link_of(r) == normalize_url(OrEmpty(r.linkSistemaOrigem))

\* lines 895-905: the origin page and the links find_pdf_links proposes (none
\* when the page is not fetched or its parsing raises)
FetchPage ==
    /\ pc = "page"
    /\ \E page \in PageAnswers(link_of(resultados[idx])), parsed \in BOOLEAN :
         /\ page_html' = page
         /\ cand' = IF page # PAGE_EMPTY /\ parsed
                    THEN find_pdf_links(link_of(resultados[idx]), page)
                    ELSE NoCand
    /\ pc' = "verify"
    /\ UNCHANGED <<ai_payload, call, ret, args, filtros, arr, resultados, idx, edital_url, anexo_url,
                   verified, extracted, ai, featured>>

NoAnswer == [head |-> "raise", get |-> "raise", url |-> NoneStr]
AnswersFor(u) == IF Truthy(u) THEN VerifyAnswers(u) ELSE {NoAnswer}
OrStr(a, b) == IF Truthy(a) THEN a ELSE b

\* line 906: edital_url = ensure_pdf_url(ed) or ed
kept_url(u, o) == OrStr(ensure_pdf_url(u, o), u)

\* lines 911-912
pdf_link_fallback(ed, link) ==
    IF ~Truthy(ed) /\ EndsWith(lower(link), W_PDF) THEN link ELSE ed

\* lines 906-912: ensure_pdf_url on both proposals
Verify ==
    /\ pc = "verify"
    /\ \E oe \in AnswersFor(cand.edital), oa \in AnswersFor(cand.anexo) :
         /\ edital_url' = pdf_link_fallback(kept_url(cand.edital, oe),
                                            link_of(resultados[idx]))
         /\ anexo_url' = kept_url(cand.anexo, oa)
         /\ verified' = {u \in {ensure_pdf_url(cand.edital, oe),
                                ensure_pdf_url(cand.anexo, oa)} : Truthy(u)}
    /\ pc' = "docs"
    /\ UNCHANGED <<ai_payload, call, ret, args, filtros, arr, resultados, idx, page_html, cand,
                   extracted, ai, featured>>

\* the text of a document: requests.get and ConvertAPI answer with a text, or
\* one of them raises and the text stays ""
TextAnswers(u) == IF Truthy(u) THEN DocTexts \cup {<<>>} ELSE {<<>>}

\* the extracted value assigned even when it is None
apply_extracted_always(r, x) ==
    LET r1 == IF Truthy(x.objetoCompra) THEN [r EXCEPT !.objetoCompra = x.objetoCompra]
              ELSE r
        r2 == [r1 EXCEPT !.valorEstimado = x.valorEstimado]
        r3 == IF Truthy(x.abertura) /\ ~Truthy(r2.dataAberturaProposta)
              THEN [r2 EXCEPT !.dataAberturaProposta = x.abertura] ELSE r2
    IN IF Truthy(x.encerramento) /\ ~Truthy(r3.dataEncerramentoProposta)
       THEN [r3 EXCEPT !.dataEncerramentoProposta = x.encerramento] ELSE r3

\* lines 932-941
apply_extracted(r, x) ==
    LET r1 == IF Truthy(x.objetoCompra) THEN [r EXCEPT !.objetoCompra = x.objetoCompra]
              ELSE r
        r2 == IF x.valorEstimado # NoneNum
              THEN [r1 EXCEPT !.valorEstimado = x.valorEstimado] ELSE r1
        r3 == IF Truthy(x.abertura) /\ ~Truthy(r2.dataAberturaProposta)
              THEN [r2 EXCEPT !.dataAberturaProposta = x.abertura] ELSE r2
    IN IF Truthy(x.encerramento) /\ ~Truthy(r3.dataEncerramentoProposta)
       THEN [r3 EXCEPT !.dataEncerramentoProposta = x.encerramento] ELSE r3

\* lines 914-941: the documents' text and the fields extracted from it
Docs ==
    /\ pc = "docs"
    /\ IF args.token /\ (Truthy(edital_url) \/ Truthy(anexo_url))
       THEN \E edital_txt \in TextAnswers(edital_url), anexo_txt \in TextAnswers(anexo_url) :
              /\ extracted' = extract_fields_from_pdf_text(edital_txt, anexo_txt)
              /\ resultados' = [resultados EXCEPT ![idx] = apply_extracted(@, extracted')]
       ELSE UNCHANGED <<resultados, extracted>>
    /\ pc' = "fallback"
    /\ UNCHANGED <<ai_payload, call, ret, args, filtros, arr, idx, page_html, cand, edital_url,
                   anexo_url, verified, ai, featured>>

\* the notice sent back to 'avaliar' when the page gives it a value
apply_html_value_reclassified(r, v_html) ==
    IF v_html # NoneNum
    THEN [r EXCEPT !.valorEstimado = v_html, !.analise.recomendacao = "avaliar"]
    ELSE r

\* lines 943-950
apply_html_value(r, v_html) ==
    IF v_html # NoneNum THEN [r EXCEPT !.valorEstimado = v_html] ELSE r

\* the exception of extract_value_from_html not caught: main stops there
Fallback_uncaught ==
    /\ pc = "fallback"
    /\ IF resultados[idx].valorEstimado = NoneNum /\ page_html # PAGE_EMPTY
       THEN \E raises \in BOOLEAN :
              /\ resultados' = IF raises THEN resultados
                               ELSE [resultados EXCEPT ![idx] =
                                       apply_html_value(@, extract_value_from_html(page_html))]
              /\ idx' = IF raises THEN idx ELSE idx + 1
              /\ pc' = IF raises THEN "aborted"
                       ELSE IF idx + 1 > Len(resultados) THEN "ai" ELSE "page"
       ELSE /\ UNCHANGED resultados
            /\ idx' = idx + 1
            /\ pc' = IF idx + 1 > Len(resultados) THEN "ai" ELSE "page"
    /\ page_html' = PAGE_EMPTY
    /\ cand' = NoCand
    /\ edital_url' = NoneStr
    /\ anexo_url' = NoneStr
    /\ verified' = {}
    /\ extracted' = NoExtracted
    /\ UNCHANGED <<ai_payload, call, ret, args, filtros, arr, ai, featured>>

\* lines 943-952: the value in the page; then the next pass starts with fresh
\* locals (lines 895-898)
Fallback ==
    /\ pc = "fallback"
    /\ IF resultados[idx].valorEstimado = NoneNum /\ page_html # PAGE_EMPTY
       THEN \E raises \in BOOLEAN :
              resultados' = IF raises THEN resultados
                            ELSE [resultados EXCEPT ![idx] =
                                    apply_html_value(@, extract_value_from_html(page_html))]
       ELSE UNCHANGED resultados
    /\ idx' = idx + 1
    /\ pc' = IF idx + 1 > Len(resultados) THEN "ai" ELSE "page"
    /\ page_html' = PAGE_EMPTY
    /\ cand' = NoCand
    /\ edital_url' = NoneStr
    /\ anexo_url' = NoneStr
    /\ verified' = {}
    /\ extracted' = NoExtracted
    /\ UNCHANGED <<ai_payload, call, ret, args, filtros, arr, ai, featured>>

\* lines 954-961
CallAI ==
    /\ pc = "ai"
    /\ IF args.ai THEN ai' \in MainFeeds \cup {FailureFeed} ELSE ai' = NoFeed
    /\ pc' = "defaults"
    /\ UNCHANGED <<ai_payload, call, ret, args, filtros, arr, resultados, idx, locals, featured>>

\* line 964
EnsureDefaults ==
    /\ pc = "defaults"
    /\ ai' = IF ai.present THEN ensure_ai_defaults(ai, resultados) ELSE ai
    /\ pc' = "metrics"
    /\ UNCHANGED <<ai_payload, call, ret, args, filtros, arr, resultados, idx, locals, featured>>

\* line 965
EnsureMetrics ==
    /\ pc = "metrics"
    /\ ai' = IF ai.present THEN ensure_ai_metrics(ai, resultados) ELSE ai
    /\ pc' = "html"
    /\ UNCHANGED <<ai_payload, call, ret, args, filtros, arr, resultados, idx, locals, featured>>

\* line 967: build_html marks the featured notice
BuildHtml ==
    /\ pc = "html"
    /\ featured' = match_ai_featured(ai, resultados)
    /\ pc' = "done"
    /\ UNCHANGED <<ai_payload, call, ret, args, filtros, arr, resultados, idx, locals, ai>>

Next ==
    \/ Normalize
    \/ KeywordFilter
    \/ Backstop
    \/ FetchPage
    \/ Verify
    \/ Docs
    \/ Fallback
    \/ CallAI
    \/ EnsureDefaults
    \/ EnsureMetrics
    \/ BuildHtml

Spec == Init /\ [][Next]_vars

LoopArgs ==
    [palavra : {<<>>}, uf : {<<>>}, orgao : {<<>>}, minValor : {0},
     token : {TRUE}, ai : {TRUE}]

\* a notice whose link is a page and a notice whose link is a document
LoopRaws == {RAW_TI, RAW_OBRA_BA}

InitLoop ==
    /\ pc = "fetched"
    /\ args \in LoopArgs
    /\ filtros = make_filtros(args)
    /\ arr \in SeqsUpTo(LoopRaws, MaxArr)
    /\ resultados = <<>>
    /\ Idle

\* the states in which a step of Next can be taken: by their guards, one
\* action is enabled at each position of main but the last
NextEnabled ==
    pc \in {"fetched", "normalized", "filtered", "page", "verify", "docs",
            "fallback", "ai", "defaults", "metrics", "html"}

\* main is one sequential program and every request it makes carries a
\* timeout (lines 336, 340, 902, 918, 925): a step that can be taken is
\* taken.  This is weak fairness of Next, WF_vars(Next), written with the
\* states in which Next is enabled.
SpecLive ==
    InitLoop /\ [][Next]_vars /\ ([]<><<Next>>_vars \/ <>[](~NextEnabled))

-----------------------------------------------------------------------------
(* Scoring alone: one raw record normalised under every combination of filters *)

InitScore ==
    /\ pc = "fetched"
    /\ filtros \in ScoreFiltros
    /\ args = filtros @@ [token |-> FALSE, ai |-> FALSE]
    /\ arr \in {<<i>> : i \in ScoreRaws}
    /\ resultados = <<>>
    /\ Idle

NextScore == Normalize

SpecScore == InitScore /\ [][NextScore]_vars

-----------------------------------------------------------------------------
(* Reconciliation alone: main from line 954 on, for notices that enrichment  *)
(* left as normalised, with every feed of RichFeeds                          *)

InitAI ==
    /\ pc = "ai"
    /\ args \in AIArgs
    /\ filtros = make_filtros(args)
    /\ arr \in SeqsUpTo(MainRaws, MaxItens)
    /\ resultados = backstop(keyword_filter(normalize_results(arr, filtros),
                                            args.palavra), args.palavra)
    /\ ai_payload = make_payload(resultados, filtros)
    /\ idx = Len(arr) + 1
    /\ NoLocals
    /\ ai = NoFeed
    /\ featured = 0
    /\ call = NoCall
    /\ ret = NoCall

\* lines 956-961 with the generator answering
ReceiveFeed ==
    /\ pc = "ai"
    /\ ai' \in RichFeeds
    /\ pc' = "defaults"
    /\ UNCHANGED <<ai_payload, call, ret, args, filtros, arr, resultados, idx, locals, featured>>

NextAI ==
    \/ ReceiveFeed
    \/ EnsureDefaults
    \/ EnsureMetrics
    \/ BuildHtml

SpecAI == InitAI /\ [][NextAI]_vars

-----------------------------------------------------------------------------
(* Reconciliation run twice: lines 964-965 again, on the feed they produced  *)

ReconcileAgain ==
    /\ pc = "html"
    /\ ai.present
    /\ ai' = ensure_ai_metrics(ensure_ai_defaults(ai, resultados), resultados)
    /\ pc' = "again"
    /\ UNCHANGED <<ai_payload, call, ret, args, filtros, arr, resultados, idx, locals, featured>>

NextRerun ==
    \/ ReceiveFeed
    \/ EnsureDefaults
    \/ EnsureMetrics
    \/ ReconcileAgain

SpecRerun == InitAI /\ [][NextRerun]_vars

-----------------------------------------------------------------------------
(* The start of main: the modality code and the listing *)

\* the names of MODALIDADE_MAP; the code of a name is its position
MODALIDADE_MAP ==
    << <<"l","e","i","l","a","o"," ","e","l","e","t","r","o","n","i","c","o">>,
       <<"d","i","a","l","o","g","o"," ","c","o","m","p","e","t","i","t","i","v","o">>,
       <<"c","o","n","c","u","r","s","o">>,
       <<"c","o","n","c","o","r","r","e","n","c","i","a"," ","e","l","e","t","r","o","n","i","c","a">>,
       <<"c","o","n","c","o","r","r","e","n","c","i","a"," ","p","r","e","s","e","n","c","i","a","l">>,
       <<"p","r","e","g","a","o"," ","e","l","e","t","r","o","n","i","c","o">>,
       <<"p","r","e","g","a","o"," ","p","r","e","s","e","n","c","i","a","l">>,
       <<"d","i","s","p","e","n","s","a">>,
       <<"i","n","e","x","i","g","i","b","i","l","i","d","a","d","e">>,
       <<"m","a","n","i","f","e","s","t","a","c","a","o"," ","d","e"," ","i","n","t","e","r","e","s","s","e">>,
       <<"p","r","e","-","q","u","a","l","i","f","i","c","a","c","a","o">>,
       <<"c","r","e","d","e","n","c","i","a","m","e","n","t","o">>,
       <<"l","e","i","l","a","o"," ","p","r","e","s","e","n","c","i","a","l">>,
       <<"i","n","a","p","l","i","c","a","b","i","l","i","d","a","d","e">> >>

\* str.isdigit: "^2" is the superscript two, a digit to isdigit that int()
\* rejects
isdigit(s) == s # <<>> /\ \A i \in 1..Len(s) : IsDigit(s[i]) \/ s[i] = "^2"

\* the name looked up before the numeric code
resolve_modalidade_code_name_first(modalidade, cod) ==
    LET m == strip(nlower(OrEmpty(modalidade)))
        c == strip(OrEmpty(cod))
    IN IF m \in Range(MODALIDADE_MAP)
       THEN [ok |-> TRUE, code |-> Pos(MODALIDADE_MAP, m)]
       ELSE IF Truthy(cod) /\ isdigit(c)
       THEN (IF \A i \in 1..Len(c) : IsDigit(c[i])
             THEN [ok |-> TRUE, code |-> NumVal(c)]
             ELSE [ok |-> FALSE, code |-> 0])
       ELSE [ok |-> FALSE, code |-> 0]

\* [ok, code]: ok is FALSE where the function raises ValueError
resolve_modalidade_code(modalidade, cod) ==
    LET m == strip(nlower(OrEmpty(modalidade)))
        c == strip(OrEmpty(cod))
    IN IF Truthy(cod) /\ isdigit(c)
       THEN (IF \A i \in 1..Len(c) : IsDigit(c[i])
             THEN [ok |-> TRUE, code |-> NumVal(c)]
             ELSE [ok |-> FALSE, code |-> 0])
       ELSE IF m \in Range(MODALIDADE_MAP)
       THEN [ok |-> TRUE, code |-> Pos(MODALIDADE_MAP, m)]
       ELSE [ok |-> FALSE, code |-> 0]

MOD_PREGAO == <<"P","r","e","g","a~","o"," ","E","l","e","t","r","o","n","i","c","o">>
MOD_DISPENSA == <<" ","d","i","s","p","e","n","s","a"," ">>
MOD_UNKNOWN == <<"x","y","z">>

StartArgs ==
    [palavra : {<<>>}, uf : {<<>>, UF_sp}, orgao : {<<>>}, minValor : {0},
     token : {FALSE}, ai : {FALSE},
     modalidade : {<<>>, MOD_PREGAO, MOD_DISPENSA, MOD_UNKNOWN},
     cod_modalidade : {<<>>, <<"6">>, <<" ","1","3"," ">>, <<"x">>, <<"^2">>}]

\* main before line 837: nothing is built yet
NoFiltros == <<>>

InitStart ==
    /\ pc = "start"
    /\ args \in StartArgs
    /\ filtros = NoFiltros
    /\ arr = <<>>
    /\ resultados = <<>>
    /\ ai_payload = NoPayload
    /\ idx = 0
    /\ NoLocals
    /\ ai = NoFeed
    /\ featured = 0
    /\ call = NoCall
    /\ ret = NoCall

\* lines 837-850: sys.exit(2) when the code is not resolved, else filtros
ResolveModalidade ==
    /\ pc = "start"
    /\ LET c == resolve_modalidade_code(args.modalidade, args.cod_modalidade) IN
       IF c.ok
       THEN /\ filtros' = make_filtros(args) @@ [codModalidade |-> c.code]
            /\ pc' = "resolved"
       ELSE /\ UNCHANGED filtros
            /\ pc' = "exit 2"
    /\ UNCHANGED <<ai_payload, call, ret, args, arr, resultados, idx, locals, ai, featured>>

\* what requests.get answers to fetch_pncp: a status, or it raises
ListingAnswers == {"200", "404", "500", "raises"}

\* lines 861-863: fetch_pncp (240-255) is called outside any try; its
\* raise_for_status or a failed request ends main with a traceback
FetchListing ==
    /\ pc = "resolved"
    /\ \E answer \in ListingAnswers :
         /\ ret' = answer
         /\ IF answer = "200"
            THEN /\ arr' \in SeqsUpTo({RAW_TI, RAW_OBRA_BA}, 1)
                 /\ pc' = "fetched"
            ELSE /\ UNCHANGED arr
                 /\ pc' = "uncaught"
    /\ UNCHANGED <<ai_payload, call, args, filtros, resultados, idx, locals, ai, featured>>

NextStart ==
    \/ ResolveModalidade
    \/ FetchListing
    \/ Normalize

SpecStart == InitStart /\ [][NextStart]_vars

-----------------------------------------------------------------------------
(* fmt_money_br and money_br_to_number applied in turn to an amount          *)

\* amounts in centavos: every amount up to MaxCents, amounts with groups of
\* thousands, amounts below zero (never the centavo that stands for None)
Amounts ==
    (0..MaxCents)
    \cup {99999, 100000, 123456, 100000000, 123456789, 0 - 500, 0 - 123456}

\* main is not running
Parked ==
    /\ args = [palavra |-> <<>>, uf |-> <<>>, orgao |-> <<>>, minValor |-> 0,
               token |-> FALSE, ai |-> FALSE]
    /\ filtros = make_filtros(args)
    /\ arr = <<>>
    /\ resultados = <<>>
    /\ ai_payload = NoPayload
    /\ idx = 0
    /\ NoLocals
    /\ ai = NoFeed
    /\ featured = 0

parked == <<args, filtros, arr, resultados, ai_payload, idx, locals, ai, featured>>

InitMoney ==
    /\ pc = "call"
    /\ call \in Amounts \cup {NoneNum}
    /\ ret = NoCall
    /\ Parked

FormatMoney ==
    /\ pc = "call"
    /\ ret' = fmt_money_br(call)
    /\ pc' = "formatted"
    /\ UNCHANGED <<call, parked>>

ParseMoney ==
    /\ pc = "formatted"
    /\ ret' = money_br_to_number(ret)
    /\ pc' = "parsed"
    /\ UNCHANGED <<call, parked>>

NextMoney ==
    \/ FormatMoney
    \/ ParseMoney

SpecMoney == InitMoney /\ [][NextMoney]_vars

-----------------------------------------------------------------------------
(* extract_fields_from_pdf_text applied to the texts of two documents        *)

\* the lines a document's text is made of
DocLines ==
    { Line("objeto", FALSE, <<"C","o","m","p","r","a"," ","T","I">>),
      Line("do objeto", FALSE, <<"X">>),
      Line("valor estimado", TRUE, <<"1",".","2","3","4",",","5","6">>),
      Line("valor estimado", TRUE, <<",">>),
      Line("valor global", TRUE, <<"5","0",",","0","0">>),
      Line("abertura", FALSE, <<"1","0","/","0","1">>),
      Line("sessao de abertura", FALSE, <<"1","1","/","0","1">>),
      Line("encerramento", FALSE, <<"2","0","/","0","1">>) }

InitExtract ==
    /\ pc = "call"
    /\ call \in [edital_txt : SeqsUpTo(DocLines, MaxEditalLines),
                  anexo_txt : SeqsUpTo(DocLines, MaxAnexoLines)]
    /\ ret = NoCall
    /\ Parked

ExtractFields ==
    /\ pc = "call"
    /\ ret' = extract_fields_from_pdf_text(call.edital_txt, call.anexo_txt)
    /\ pc' = "extracted"
    /\ UNCHANGED <<call, parked>>

NextExtract == ExtractFields

SpecExtract == InitExtract /\ [][NextExtract]_vars

-----------------------------------------------------------------------------
(* find_pdf_links applied to an origin page                                  *)

\* the anchors an origin page is made of
PageAnchors ==
    { Anchor(<<"a","n","e","x","o","1",".","p","d","f">>, <<"A","n","e","x","o"," ","I">>),
      Anchor(<<"a","n","e","x","o","1",".","p","d","f">>, <<"I","t","e","n","s">>),
      Anchor(<<"/","x">>, <<"C","o","n","t","a","t","o">>),
      Anchor(<<" ","/","E","D","I","T","A","L",".","p","d","f">>, <<"B","a","i","x","a","r">>),
      Anchor(<<"/","d","o","c">>, <<"D","o","w","n","l","o","a","d">>) }

LinkPages ==
    [anchors : SeqsUpTo(PageAnchors, MaxAnchors),
     data : {<<>>, << <<"/","d","o","c">> >>},
     js : {<<>>, << <<"h","t","t","p","s",":","/","/","c","/","t","e","r","m","o">> >>},
     lines : {<<>>}]

InitLinks ==
    /\ pc = "call"
    /\ call \in [page_url : {normalize_url(LINK_PAGE)}, html : LinkPages]
    /\ ret = NoCall
    /\ Parked

FindPdfLinks ==
    /\ pc = "call"
    /\ ret' = find_pdf_links(call.page_url, call.html)
    /\ pc' = "found"
    /\ UNCHANGED <<call, parked>>

NextLinks == FindPdfLinks

SpecLinks == InitLinks /\ [][NextLinks]_vars

-----------------------------------------------------------------------------
(* Reconciliation of a feed keyed as call_openai_summary asks: the prompt    *)
(* gives every notice its "chave", the key ensure_ai_defaults would create.  *)

KeyedRaws == {RAW_TI, RAW_OBRA_BA, RAW_SISTEMA}

\* the keys of the notices, and a bare purchase number
KeyedKeys == {new_key(raw) : raw \in KeyedRaws} \cup {NUM_90}

KeyedFeeds ==
    { Feed(p, NoMetricas, <<>>) :
        p \in { q \in SeqsUpTo([k : KeyedKeys, v : FeedEntries], MaxKeys) :
                  \A a, b \in 1..Len(q) : a # b => q[a].k # q[b].k } }

InitKeyed ==
    /\ pc = "ai"
    /\ args \in AIArgs
    /\ filtros = make_filtros(args)
    /\ arr \in SeqsUpTo(KeyedRaws, MaxItens)
    /\ resultados = backstop(keyword_filter(normalize_results(arr, filtros),
                                            args.palavra), args.palavra)
    /\ ai_payload = make_payload(resultados, filtros)
    /\ idx = Len(arr) + 1
    /\ NoLocals
    /\ ai = NoFeed
    /\ featured = 0
    /\ call = NoCall
    /\ ret = NoCall

\* lines 956-964: the generator answers; call is the feed as it is handed to
\* ensure_ai_defaults
ReceiveKeyedFeed ==
    /\ pc = "ai"
    /\ ai' \in KeyedFeeds
    /\ call' = ai'
    /\ pc' = "defaults"
    /\ UNCHANGED <<ai_payload, ret, args, filtros, arr, resultados, idx, locals, featured>>

NextKeyed ==
    \/ ReceiveKeyedFeed
    \/ EnsureDefaults

SpecKeyed == InitKeyed /\ [][NextKeyed]_vars

-----------------------------------------------------------------------------
(* Properties *)

Notices == 1..Len(resultados)

\* the disallowed jurisdiction, as the specification words it: unit state
\* 'BA' whatever its case, or 'bahia' in the folded agency name
InDisallowedJurisdiction(r) ==
    \/ Len(r.uf) = 2 /\ LowerChar(r.uf[1]) = "b" /\ LowerChar(r.uf[2]) = "a"
    \/ \E k \in 1..Len(r.razaoSocial) :
         k + 4 <= Len(r.razaoSocial)
         /\ nlower(SubSeq(r.razaoSocial, k, k + 4)) = <<"b","a","h","i","a">>

\* C1: in every state of the pipeline, the backstop of main included, no
\* notice is recommended 'prosseguir' while it carries an exclusion reason or
\* is in the disallowed jurisdiction.
C1_NoProceedWhenExcluded ==
    \A k \in Notices :
        resultados[k].analise.recomendacao = "prosseguir"
        => /\ resultados[k].analise.motivo = MotivoAbsent
           /\ ~InDisallowedJurisdiction(resultados[k])

\* C2: decide_score gives a notice of the disallowed jurisdiction the
\* recommendation 'descartar' with an exclusion reason, whatever its score
\* and whatever the filters.
C2_ExclusionWins ==
    pc = "normalized" =>
        \A k \in Notices :
            InDisallowedJurisdiction(resultados[k])
            => /\ resultados[k].analise.recomendacao = "descartar"
               /\ resultados[k].analise.motivo # MotivoAbsent

C2_ExcludedAtScore100 ==
    /\ pc = "normalized"
    /\ \E k \in Notices :
         /\ InDisallowedJurisdiction(resultados[k])
         /\ resultados[k].analise.score = 100
         /\ resultados[k].analise.recomendacao = "descartar"

\* C3: the primary and annex URLs main keeps after discovery are each None
\* or a URL ensure_pdf_url confirmed as application/pdf.
C3_KeptUrlsAreVerified ==
    /\ Truthy(edital_url) => edital_url \in verified
    /\ Truthy(anexo_url) => anexo_url \in verified

\* C4: after ensure_ai_defaults, resolve_ai_item returns for every notice an
\* entry with a non-null title, a value text, a recommendation and a numeric
\* AI score.
C4_EveryNoticeHasFilledEntry ==
    (ai.present /\ pc \in {"metrics", "html", "done"}) =>
        \A k \in Notices :
            LET j == resolve_ai_item(ai.por_item, resultados[k]) IN
            /\ j # 0
            /\ Get(ai.por_item[j].v, "titulo", NoneStr) # NoneStr
            /\ Get(ai.por_item[j].v, "valor_estimado_texto", NoneStr) # NoneStr
            /\ RecTruthy(Get(ai.por_item[j].v, "recomendacao", NoneRec))
            /\ Get(ai.por_item[j].v, "score_ai", NoneNum) # NoneNum

\* the positions in por_item that the strategies (a)-(d) allow for notice r,
\* {0} when no strategy succeeds; (b) needs a purchase number and a year
C5_Allowed(por_item, r) ==
    LET Keys == 1..Len(por_item)
        num == r.numeroCompra
        A == {j \in Keys : Truthy(r.numeroControlePNCP)
                           /\ por_item[j].k = r.numeroControlePNCP}
        B == {j \in Keys : /\ Truthy(num) /\ NumTruthy(r.anoCompra)
                           /\ por_item[j].k = num \o <<"/">> \o DigitsOf(r.anoCompra)}
        C == {j \in Keys : Truthy(num) /\ por_item[j].k = num}
        D == {j \in Keys : Truthy(num) /\ Contains(por_item[j].k, num)}
    IN IF A # {} THEN A ELSE IF B # {} THEN B ELSE IF C # {} THEN C
       ELSE IF D # {} THEN D ELSE {0}

\* C5: resolve_ai_item returns the entry of the first strategy that succeeds
\* among (a) key = control number, (b) key = 'purchaseNumber/year', (c) key =
\* purchase number, (d) a key containing the purchase number; None when none
\* succeeds.
C5_ResolvePriority ==
    ai.present =>
        \A k \in Notices :
            resolve_ai_item(ai.por_item, resultados[k]) \in C5_Allowed(ai.por_item, resultados[k])

C5_ControlKeyBeatsBareNumber ==
    /\ pc = "defaults"
    /\ \E k \in Notices, a, b \in 1..Len(ai.por_item) :
         /\ ai.por_item[a].k = resultados[k].numeroCompra
         /\ ai.por_item[b].k = resultados[k].numeroControlePNCP
         /\ a < b
         /\ resolve_ai_item(ai.por_item, resultados[k]) = b

\* the notices each tier of the featured-item match selects for `alvo`
C6_Alvo == strip(OrEmpty(ai.destaques[1].numero))
C6_Exact ==
    {k \in Notices :
        \/ Truthy(resultados[k].numeroControlePNCP)
           /\ resultados[k].numeroControlePNCP = C6_Alvo
        \/ Truthy(resultados[k].numeroCompra)
           /\ compound_key(resultados[k]) = C6_Alvo}
C6_Bare ==
    {k \in Notices : Truthy(resultados[k].numeroCompra)
                     /\ resultados[k].numeroCompra = C6_Alvo}
C6_PrefixOnly ==
    {k \in Notices : Truthy(resultados[k].numeroCompra)
                     /\ StartsWith(C6_Alvo, resultados[k].numeroCompra)}

\* C6: match_ai_featured resolves the first featured identifier by strict
\* tier priority over all notices: exact control/compound key, then bare
\* number equal, then bare number a prefix; none when the list is empty, the
\* identifier blank or no tier matches.
C6_FeaturedByTier ==
    pc = "done" =>
        IF ~ai.present \/ ai.destaques = <<>> \/ C6_Alvo = <<>> THEN featured = 0
        ELSE IF C6_Exact # {} THEN featured \in C6_Exact
        ELSE IF C6_Bare # {} THEN featured \in C6_Bare
        ELSE IF C6_PrefixOnly # {} THEN featured \in C6_PrefixOnly
        ELSE featured = 0

\* the number of notices whose resolved entry's recommendation, or else
\* whose local recommendation, is tier t
C7_Tally(t) ==
    Cardinality({k \in Notices :
        LET j == resolve_ai_item(ai.por_item, resultados[k])
            rec == IF j = 0 THEN NoneRec ELSE Get(ai.por_item[j].v, "recomendacao", NoneRec)
        IN (IF rec \in {NoneRec, ""} THEN resultados[k].analise.recomendacao ELSE rec) = t})

C7_Step ==
    (pc = "metrics" /\ ai.present) =>
        /\ \A n \in DOMAIN ai.metricas :
               ai.metricas[n] # NoneNum => ai'.metricas[n] = ai.metricas[n]
        /\ "total" \notin DOMAIN ai.metricas => ai'.metricas["total"] = Len(resultados)
        /\ \A t \in {"prosseguir", "avaliar", "descartar"} :
               t \notin DOMAIN ai.metricas => ai'.metricas[t] = C7_Tally(t)
        /\ DOMAIN ai'.metricas = MetricNames

LoopPcs == {"page", "verify", "docs", "fallback"}

C8_Step ==
    pc \in LoopPcs =>
        \A k \in Notices :
            /\ resultados[k].valorEstimado # NoneNum
               => resultados'[k].valorEstimado # NoneNum
            /\ (pc = "fallback" /\ resultados[k].valorEstimado # NoneNum)
               => resultados'[k].valorEstimado = resultados[k].valorEstimado

\* C8: across the enrichment loop a non-null estimatedValue never becomes
\* null again, and the in-page fallback assigns only a value that is null.
C8_ValueNeverLost == [][C8_Step]_vars

C8_ExtractionWithoutValueKeptValue ==
    /\ pc = "fallback"
    /\ args.token
    /\ resultados[idx].valorEstimado = 20000
    /\ resultados[idx].dataEncerramentoProposta = <<"2","0","/","0","1">>

\* the weights of the four filters, as the specification words them
C9_Weights(r, f) ==
      (IF f.palavra \in {NoneStr, <<>>}
          \/ Contains(nlower(r.objetoCompra), nlower(f.palavra)) THEN 35 ELSE 0)
    + (IF f.uf \in {NoneStr, <<>>} \/ upper(f.uf) = upper(r.uf) THEN 20 ELSE 0)
    + (IF f.orgao \in {NoneStr, <<>>}
          \/ Contains(nlower(r.razaoSocial), nlower(f.orgao)) THEN 10 ELSE 0)
    + (IF f.minValor = 0
          \/ (IF r.valorEstimado = NoneNum THEN 0 ELSE r.valorEstimado) >= f.minValor
       THEN 35 ELSE 0)

\* C9: the score is the sum of the weights 35, 20, 10, 35 of the filters that
\* are unset or satisfied (the state compared without regard to case); a
\* notice the exclusion rule does not hit is 'prosseguir' exactly when its
\* score is at least 70 and 'avaliar' otherwise.
C9_ScoreAndTier ==
    pc = "normalized" =>
        \A k \in Notices :
            /\ resultados[k].analise.score = C9_Weights(resultados[k], filtros)
            /\ ~InDisallowedJurisdiction(resultados[k])
               => resultados[k].analise.recomendacao =
                    (IF resultados[k].analise.score >= 70 THEN "prosseguir" ELSE "avaliar")

C9_ProceedsAtExactly70 ==
    /\ pc = "normalized"
    /\ \E k \in Notices :
         /\ resultados[k].analise.score = 70
         /\ resultados[k].analise.recomendacao = "prosseguir"
         /\ Truthy(filtros.uf) /\ Truthy(filtros.orgao)

C10_AllUnset ==
    /\ filtros.palavra \in {NoneStr, <<>>}
    /\ filtros.uf \in {NoneStr, <<>>}
    /\ filtros.orgao \in {NoneStr, <<>>}
    /\ filtros.minValor = 0

\* C10: with every filter unset, every notice normalize_results produces has
\* score 100 and is 'prosseguir', unless the exclusion rule fires for it.
C10_UnsetFiltersScore100 ==
    (pc = "normalized" /\ C10_AllUnset) =>
        \A k \in Notices :
            ~InDisallowedJurisdiction(resultados[k])
            => /\ resultados[k].analise.score = 100
               /\ resultados[k].analise.recomendacao = "prosseguir"

C10_EmptyNoticeScores100 ==
    /\ pc = "normalized"
    /\ C10_AllUnset
    /\ \E k \in Notices :
         /\ resultados[k].objetoCompra = <<>>
         /\ resultados[k].valorEstimado = NoneNum
         /\ resultados[k].analise.score = 100
         /\ resultados[k].analise.recomendacao = "prosseguir"

\* C11: every notice's score is an integer of 0..100 in every state of the
\* pipeline, after the backstop replaced a score by max(80, score) too.
C11_ScoreInRange ==
    \A k \in Notices : resultados[k].analise.score \in 0..100

C11_BackstopRaisedScoreTo80 ==
    /\ pc = "page"
    /\ \E k \in Notices :
         /\ resultados[k].analise.score = 80
         /\ score_of(resultados[k], filtros) < 80

\* the keys of a per-item mapping and the entry under a key
C12_Keys(por_item) == {por_item[j].k : j \in 1..Len(por_item)}
C12_Entry(por_item, k) == por_item[KeyIndex(por_item, k)].v

C12_Step ==
    (pc = "html" /\ pc' = "again") =>
        /\ C12_Keys(ai'.por_item) = C12_Keys(ai.por_item)
        /\ \A k \in C12_Keys(ai.por_item) :
               C12_Entry(ai'.por_item, k) = C12_Entry(ai.por_item, k)
        /\ ai'.metricas = ai.metricas

\* C12: ensure_ai_defaults and ensure_ai_metrics run again on the feed they
\* produced, with the same notices, leave the per-item keys, every entry and
\* every metric as they were.
C12_RerunChangesNothing == [][C12_Step]_vars

C12_RerunOverCreatedEntries ==
    /\ pc = "again"
    /\ Len(resultados) = 2
    /\ \E j \in 1..Len(ai.por_item) :
         /\ ai.por_item[j].k = <<"9","/","N","o","n","e">>
         /\ j > 1
         /\ ai.por_item[1].v = EmptyEntry
    /\ ai.metricas["total"] = 2

\* C13: for every non-null amount x of two decimal places,
\* money_br_to_number(fmt_money_br(x)) = x; and fmt_money_br(None) is the
\* placeholder, never "0" or the empty string.
C13_MoneyRoundTrip ==
    /\ (pc = "parsed" /\ call # NoneNum) => ret = call
    /\ (pc = "formatted" /\ call = NoneNum) => ret = DASH

\* C13, amended: the round trip gives x back for every non-null amount x of
\* two decimal places that is not below zero; None is formatted as the
\* placeholder.
C13_NonNegativeRoundTrip ==
    /\ (pc = "parsed" /\ call # NoneNum /\ call >= 0) => ret = call
    /\ (pc = "formatted" /\ call = NoneNum) => ret = DASH

C13_MillionsRoundTrip ==
    /\ pc = "parsed"
    /\ call = 123456789
    /\ ret = 123456789

\* an external call of this pass of the loop has failed: the origin page was
\* not fetched or not parsed, or ensure_pdf_url did not confirm a proposed link
C14_FailureSeen ==
    /\ pc \in {"verify", "docs", "fallback"}
    /\ \/ link_of(resultados[idx]) # <<>> /\ page_html = PAGE_EMPTY
       \/ pc # "verify" /\ Truthy(cand.edital) /\ verified = {}

C14_Step ==
    pc \in LoopPcs =>
        /\ Len(resultados') = Len(resultados)
        /\ \A k \in Notices : k # idx => resultados'[k] = resultados[k]
        /\ pc \in {"page", "verify"} => resultados' = resultados
        /\ pc' \in LoopPcs \cup {"ai"}

\* C14: a failed external call in the enrichment loop never aborts the run:
\* the notice keeps its fields for the failed step, no other notice is
\* touched, every later notice is still processed and the pipeline reaches
\* reconciliation and the report.
C14_FailuresAreIsolated ==
    /\ [][C14_Step]_vars
    /\ C14_FailureSeen ~> (pc = "ai" /\ idx = Len(resultados) + 1)
    /\ C14_FailureSeen ~> (pc = "done")

C14_SecondNoticeAfterFailedFirst ==
    /\ pc = "fallback"
    /\ idx = 1
    /\ Len(resultados) = 2
    /\ link_of(resultados[1]) # <<>>
    /\ page_html = PAGE_EMPTY

\* the modality inputs as the claim words them: a numeric code given, a
\* modality name that is in MODALIDADE_MAP
C15_NumericCode ==
    LET c == strip(args.cod_modalidade) IN
    c # <<>> /\ \A i \in 1..Len(c) : c[i] \in {"0","1","2","3","4","5","6","7","8","9"}
C15_KnownName ==
    \E k \in 1..Len(MODALIDADE_MAP) : strip(nlower(args.modalidade)) = MODALIDADE_MAP[k]
C15_Aborted == pc \in {"exit 2", "uncaught"}

C15_State ==
    /\ (~C15_NumericCode /\ ~C15_KnownName) => pc \in {"start", "exit 2"}
    /\ (pc # "start" /\ ret \in {"404", "500", "raises"}) => pc = "uncaught"
    /\ C15_Aborted => (resultados = <<>> /\ idx = 0 /\ ai = NoFeed /\ featured = 0)
    /\ (C15_NumericCode /\ pc \notin {"start", "exit 2"})
       => filtros.codModalidade = NumVal(strip(args.cod_modalidade))

\* C15: an unresolved modality code or a listing request that does not
\* succeed aborts main with a non-zero outcome before any notice is
\* normalised or enriched and before the report; a numeric code has priority
\* over the modality name.
C15_FatalErrorsAbort ==
    /\ [](C15_State)
    /\ [][C15_Aborted => FALSE]_vars

C15_CodeBeatsName ==
    /\ pc = "normalized"
    /\ args.modalidade = MOD_DISPENSA
    /\ args.cod_modalidade = <<" ","1","3"," ">>
    /\ filtros.codModalidade = 13

\* C16: the notice data handed to the narrative-analysis generator is the
\* data after enrichment: description, value and dates in the generator's
\* input equal those the notices have when the loop has finished.
C16_PayloadIsEnriched ==
    (pc = "ai" /\ args.ai) =>
        /\ Len(ai_payload.resultados) = Len(resultados)
        /\ \A k \in Notices :
             LET sent == ai_payload.resultados[k] IN
             /\ sent.objetoCompra = resultados[k].objetoCompra
             /\ sent.valorEstimado = resultados[k].valorEstimado
             /\ sent.dataAberturaProposta = resultados[k].dataAberturaProposta
             /\ sent.dataEncerramentoProposta = resultados[k].dataEncerramentoProposta

\* what the documents of this pass gave: a field, or nothing
documents_gave_nothing ==
    /\ ~Truthy(extracted.objetoCompra)
    /\ extracted.valorEstimado = NoneNum
    /\ ~Truthy(extracted.abertura)
    /\ ~Truthy(extracted.encerramento)

\* the pass is at line 943 and extract_value_from_html is about to run
html_fallback_runs ==
    /\ pc = "fallback"
    /\ resultados[idx].valorEstimado = NoneNum
    /\ page_html # PAGE_EMPTY

\* C17: the in-page value extraction runs for a notice only when the
\* documents of that notice produced nothing: no document text was read and
\* extract_fields_from_pdf_text yielded no field.
C17_FallbackOnlyAfterNothing == html_fallback_runs => documents_gave_nothing

\* the place, in an ordered pattern list, of the first pattern that matches
\* somewhere in the text; 0 when none does
C18_First(text, patterns) ==
    LET hit == {i \in 1..Len(patterns) : \E j \in 1..Len(text) : matches(patterns[i], text[j])}
    IN IF hit = {} THEN 0 ELSE CHOOSE i \in hit : \A k \in hit : i <= k

\* the capture of that pattern at the first line it matches, trimmed; null
\* when no pattern matches
C18_Capture(text, patterns) ==
    LET i == C18_First(text, patterns) IN
    IF i = 0 THEN NoneStr
    ELSE LET j == CHOOSE j \in 1..Len(text) :
                    /\ matches(patterns[i], text[j])
                    /\ \A k \in 1..(j - 1) : ~matches(patterns[i], text[k])
         IN strip(group1(patterns[i], text[j]))

\* C18: every field extract_fields_from_pdf_text returns is the capture of
\* the first pattern of the field's list that matches anywhere in the
\* combined text of the primary document and the annex, the value being that
\* capture parsed as money; a field is null only when no pattern matches the
\* combined text or the value's capture does not parse.
C18_FirstPatternInCombinedText ==
    pc = "extracted" =>
        LET full == call.edital_txt \o call.anexo_txt IN
        /\ ret.objetoCompra = C18_Capture(full, PDF_PATTERNS_OBJETO)
        /\ ret.valorEstimado = money_br_to_number(C18_Capture(full, PDF_PATTERNS_VALOR))
        /\ ret.abertura = C18_Capture(full, PDF_PATTERNS_ABERTURA)
        /\ ret.encerramento = C18_Capture(full, PDF_PATTERNS_ENCERRAMENTO)

\* the keyword test of the scorer: the folded description contains the
\* folded keyword
C19_Contains(r) == Contains(nlower(OrEmpty(r.objetoCompra)), nlower(args.palavra))

\* the notices before the hard keyword filter that pass that test
C19_Passing == SelectSeq(normalize_results(arr, filtros), C19_Contains)

\* C19 as stated: with a non-empty keyword, the hard keyword filter keeps
\* exactly the notices whose folded description contains the folded keyword.
C19_FilterIsContainment ==
    (pc = "filtered" /\ Truthy(args.palavra)) => resultados = C19_Passing

\* the keywords for which main filters by a vocabulary of related words
C19_SoftwareKeywords ==
    { <<"s","o","f","t","w","a","r","e">>,
      <<"t","i">>,
      <<"i","n","f","o","r","m","a","t","i","c","a">>,
      <<"t","e","c","n","o","l","o","g","i","a"," ","d","a"," ","i","n","f","o","r","m","a","c","a","o">> }

\* C19: with a non-empty keyword whose folded form is none of "software",
\* "ti", "informatica", "tecnologia da informacao", the hard keyword filter
\* keeps exactly the notices whose folded description contains the folded
\* keyword, so every notice that remains passed the scorer's keyword test.
C19_PlainKeywordFilterIsContainment ==
    (pc = "filtered" /\ Truthy(args.palavra)
        /\ nlower(args.palavra) \notin C19_SoftwareKeywords)
    => /\ resultados = C19_Passing
       /\ \A k \in Notices : passaPalavra(resultados[k], filtros)

\* a plain keyword kept one notice and dropped another
C19_PlainKeywordDroppedANotice ==
    /\ pc = "filtered"
    /\ Truthy(args.palavra)
    /\ nlower(args.palavra) \notin C19_SoftwareKeywords
    /\ resultados # <<>>
    /\ Len(resultados) < Len(arr)

\* the local score of a notice plus the 10 points for containing the keyword
C20_Key(r) ==
    r.analise.score
    + (IF Truthy(args.palavra)
          /\ Contains(nlower(OrEmpty(r.objetoCompra)), nlower(args.palavra))
       THEN 10 ELSE 0)

C20_Proceeds(rs) == {k \in 1..Len(rs) : rs[k].analise.recomendacao = "prosseguir"}

\* the backstop step of main
C20_Step ==
    (pc = "filtered" /\ pc' # "filtered") =>
        /\ Len(resultados') = Len(resultados)
        /\ resultados' # <<>> => C20_Proceeds(resultados') # {}
        /\ C20_Proceeds(resultados) # {} => resultados' = resultados
        /\ (resultados # <<>> /\ C20_Proceeds(resultados) = {}) =>
             \E b \in 1..Len(resultados) :
                /\ \A k \in 1..Len(resultados) :
                      C20_Key(resultados[k]) <= C20_Key(resultados[b])
                /\ C20_Proceeds(resultados') = {b}
                /\ resultados'[b].analise.score =
                      (IF resultados[b].analise.score >= 80
                       THEN resultados[b].analise.score ELSE 80)
                /\ \A k \in 1..Len(resultados) :
                      k # b => resultados'[k].analise = resultados[k].analise

\* C20: after the backstop a non-empty result sequence has a notice that is
\* 'prosseguir'; when none was, exactly one notice, one with the greatest
\* local score plus keyword bonus, becomes 'prosseguir' with score
\* max(80, old score) and every other notice keeps its analysis; when one
\* already was, the step changes nothing.
C20_BackstopForcesOneProceed == [][C20_Step]_vars

\* the backstop has just chosen the second of two notices, neither of which
\* was 'prosseguir'
C20_SecondNoticeChosen ==
    /\ pc = "page"
    /\ idx = 1
    /\ Len(resultados) = 2
    /\ Len(arr) = 2
    /\ C20_Proceeds(resultados) = {2}
    /\ C20_Proceeds(normalize_results(arr, filtros)) = {}

\* the candidates of the page in the call, as absolute URLs, in page order
C21_Candidates ==
    LET hrefs == candidate_hrefs(call.html)
        urls  == [k \in 1..Len(hrefs) |-> abs_url(hrefs[k], call.page_url)]
        NonEmpty(u) == u # <<>>
    IN SelectSeq(urls, NonEmpty)

\* a list with every later occurrence of a URL left out: the places kept are
\* those no earlier place repeats, in their order
C21_Uniq ==
    LET c == C21_Candidates
        keep == {i \in 1..Len(c) : \A j \in 1..(i - 1) : c[j] # c[i]}
        nth(n) == CHOOSE i \in keep : Cardinality({j \in keep : j < i}) = n - 1
    IN [n \in 1..Cardinality(keep) |-> c[nth(n)]]

C21_IsEdital(u) == Contains(lower(u), <<"e","d","i","t","a","l">>)

C21_IsAnexo(u) ==
    \E w \in { <<"a","n","e","x","o">>, <<"i","t","e","n","s">>, <<"i","t","e","m">>,
                <<"t","e","r","m","o">>, <<"r","e","f","e","r","e","n","c","i","a">> } :
        Contains(lower(u), w)

\* the least place of `places`, 0 when there is none
C21_Least(places) ==
    IF places = {} THEN 0 ELSE CHOOSE i \in places : \A k \in places : i <= k

\* C21: over the candidates deduplicated in first-seen order, the primary is
\* the first candidate matching "edital", or the first candidate when none
\* matches; the annex is the first candidate matching the annex keywords that
\* is not the primary; the two are never the same URL, the annex is null
\* when no other candidate matches and both are null with no candidates.
C21_PrimaryAndAnnex ==
    pc = "found" =>
        LET uniq == C21_Uniq
            e == C21_Least({i \in 1..Len(uniq) : C21_IsEdital(uniq[i])})
            primary == IF e # 0 THEN uniq[e]
                       ELSE IF uniq # <<>> THEN uniq[1] ELSE NoneStr
            a == C21_Least({i \in 1..Len(uniq) :
                               C21_IsAnexo(uniq[i]) /\ uniq[i] # primary})
        IN /\ ret.edital = primary
           /\ ret.anexo = (IF a # 0 THEN uniq[a] ELSE NoneStr)
           /\ Truthy(ret.edital) => ret.edital # ret.anexo
           /\ uniq = <<>> => ret.edital = NoneStr /\ ret.anexo = NoneStr

\* no candidate matches "edital", so the first candidate is the primary; it
\* matches the annex keywords and is listed twice, and the annex is another
\* candidate
C21_AnnexSkipsPrimary ==
    /\ pc = "found"
    /\ Len(C21_Candidates) > Len(C21_Uniq)
    /\ ~C21_IsEdital(ret.edital)
    /\ C21_IsAnexo(ret.edital)
    /\ Truthy(ret.anexo)

\* the fields of an entry that default-filling may set
C22_Texts == {"titulo", "valor_estimado_texto"}
C22_Lists == {"pontos_positivos", "riscos"}

\* the feed populated field f of entry e with a non-empty value
C22_Populated(e, f) ==
    /\ f \in DOMAIN e
    /\ IF f = "score_ai" THEN e[f] # NoneNum
       ELSE IF f = "recomendacao" THEN e[f] # NoneRec /\ e[f] # ""
       ELSE e[f] # NoneStr /\ e[f] # <<>>

\* the entry under key k in a per-item mapping, the empty entry when k is
\* not a key of it
C22_Under(por_item, k) ==
    IF \E j \in 1..Len(por_item) : por_item[j].k = k
    THEN por_item[CHOOSE j \in 1..Len(por_item) : por_item[j].k = k].v
    ELSE <<>>

\* C22: in ensure_ai_defaults a list of positive points or risks is
\* synthesized only where the entry's list was missing or empty, a
\* synthesized list has 1 to 3 items, and every field the feed populated with
\* a non-empty value is the same after default-filling as before.
C22_PopulatedFieldsKept ==
    pc = "metrics" =>
        /\ \A j \in 1..Len(call.por_item) :
              LET before == call.por_item[j].v
                  after  == C22_Under(ai.por_item, call.por_item[j].k)
              IN \A f \in C22_Texts \cup C22_Lists \cup {"recomendacao", "score_ai"} :
                    C22_Populated(before, f) =>
                        (f \in DOMAIN after /\ after[f] = before[f])
        /\ \A j \in 1..Len(ai.por_item) :
              LET before == C22_Under(call.por_item, ai.por_item[j].k)
                  after  == ai.por_item[j].v
              IN \A f \in C22_Lists :
                    (f \in DOMAIN after
                        /\ (f \notin DOMAIN before \/ after[f] # before[f])) =>
                        /\ ~C22_Populated(before, f)
                        /\ Len(after[f]) \in 1..3

\* the identity key of a notice: its control number, or its purchase number
\* and year; the empty text when it has neither
C23_Key(r) ==
    IF Truthy(r.numeroControlePNCP) THEN r.numeroControlePNCP
    ELSE IF Truthy(r.numeroCompra) THEN r.numeroCompra \o <<"/">> \o str_ano(r.anoCompra)
    ELSE <<>>

\* the notices with an identity key
C23_Keyed == {k \in Notices : C23_Key(resultados[k]) # <<>>}

\* C23: after ensure_ai_defaults on a feed with no per-item entries, every
\* notice that has an identity key resolves to the entry created for it,
\* whose score_ai and recommendation are the notice's own, and two notices
\* with different identity keys never resolve to the same entry.
C23_EachNoticeHasItsOwnEntry ==
    (pc = "metrics" /\ call.por_item = <<>>
        /\ \A a, b \in C23_Keyed :
              a # b => C23_Key(resultados[a]) # C23_Key(resultados[b]))
    => \A k \in C23_Keyed :
          LET j == resolve_ai_item(ai.por_item, resultados[k]) IN
          /\ j # 0
          /\ ai.por_item[j].k = C23_Key(resultados[k])
          /\ ai.por_item[j].v["score_ai"] = resultados[k].analise.score
          /\ ai.por_item[j].v["recomendacao"] = resultados[k].analise.recomendacao

\* a step of the enrichment loop, of ensure_ai_defaults or of
\* ensure_ai_metrics leaves the identity and the analysis of every notice
C24_Step ==
    pc \in LoopPcs \cup {"defaults", "metrics"} =>
        /\ Len(resultados') = Len(resultados)
        /\ \A k \in Notices :
              /\ resultados'[k].numeroControlePNCP = resultados[k].numeroControlePNCP
              /\ resultados'[k].numeroCompra = resultados[k].numeroCompra
              /\ resultados'[k].anoCompra = resultados[k].anoCompra
              /\ resultados'[k].analise.score = resultados[k].analise.score
              /\ resultados'[k].analise.recomendacao = resultados[k].analise.recomendacao
              /\ resultados'[k].analise.motivo = resultados[k].analise.motivo

\* C24: the enrichment loop, ensure_ai_defaults and ensure_ai_metrics never
\* modify a notice's control number, purchase number, year, score,
\* recommendation or motivo, even when enrichment changes the value or the
\* description the score was computed from.
C24_IdentityAndAnalysisKept == [][C24_Step]_vars

\* the run has ended with a notice whose value, found by enrichment, meets
\* the minimum value, and whose score is still the one computed without it
C24_ScoreOlderThanValue ==
    /\ pc = "done"
    /\ filtros.minValor > 0
    /\ \E k \in Notices :
         /\ resultados[k].valorEstimado >= filtros.minValor
         /\ resultados[k].analise.score < score_of(resultados[k], filtros)

=============================================================================
